---- MODULE Spec2Model ----
(***************************************************************************)
(* Model of the tic-tac-toe engine: the per-size game state machine        *)
(* (game_base.py, game_easy.py, game_medium.py, game_hard.py,              *)
(* game_insane.py) and the move-search engine (ai.py).                     *)
(*                                                                         *)
(* A board is a function from the cells <<r, c>> of an N x N grid to a     *)
(* mark "X", "O" or None.  Python list indexing is kept as it is: an index *)
(* i with -N <= i < 0 reads element i + N, an index outside [-N, N) raises *)
(* IndexError.                                                             *)
(***************************************************************************)
EXTENDS Integers, Sequences, FiniteSets, TLC

VARIABLES size, board, current_player, game_over, winner, winning_cells, call,
          last_move, held

vars == <<size, board, current_player, game_over, winner, winning_cells, call,
          last_move, held>>

gameVars == <<size, board, current_player, game_over, winner, winning_cells>>

(***************************************************************************)
(* Bounds of the model.                                                    *)
(***************************************************************************)
\* On boards larger than 3x3 the host's in-range moves are drawn from the
\* first RegionCols columns of one row per player (row 0 for X, row 1 for
\* O); on 3x3 from all nine cells.
RegionCols == 5

\* The boards handed to the search engine: every 3x3 board, and on larger
\* boards every filling of the first FreeCols cells of row 0 over a fixed
\* background.
FreeCols == 4

(***************************************************************************)
(* Values.                                                                 *)
(***************************************************************************)
None == "None"

IndexError == "IndexError"

\* The value None where the code gives a move or None.
NoMove == <<>>

\* A list of rows handed out by get_board: the cells the host reads through
\* it, the rows of it that are the game's own row objects (a write to such a
\* row is a write to the game's board), and the writes the host has made.
\* NoBoard: get_board has not been called.
NoBoard == [taken |-> FALSE, shared |-> {}, cells |-> <<>>, writes |-> 0]

Sizes == {3, 4, 5, 6}

Cells(N) == (0 .. N - 1) \X (0 .. N - 1)

EmptyBoard(N) == [cell \in Cells(N) |-> None]

Other(player) == IF player = "X" THEN "O" ELSE "X"

\* Python list indexing: list[i] is defined for -N <= i < N.
InIndex(i, N) == -N <= i /\ i < N

PyIdx(i, N) == IF i < 0 THEN i + N ELSE i

\* board[row][col] as Python evaluates it (row and col both InIndex).
At(b, N, row, col) == b[<<PyIdx(row, N), PyIdx(col, N)>>]

OnBoard(N, r, c) == 0 <= r /\ r < N /\ 0 <= c /\ c < N

Directions == <<(<<0, 1>>), (<<1, 0>>), (<<1, 1>>), (<<1, -1>>)>>

(***************************************************************************)
(* Win detection of the game classes.                                      *)
(***************************************************************************)
\* The cells visited by one while loop of check_win: from (r, c) in steps
\* of (dr, dc) while the cell is on the board and holds player.
RECURSIVE Ray(_, _, _, _, _, _, _)
Ray(b, N, r, c, dr, dc, player) ==
    IF OnBoard(N, r, c) /\ b[<<r, c>>] = player
    THEN <<(<<r, c>>)>> \o Ray(b, N, r + dr, c + dc, dr, dc, player)
    ELSE <<>>

\* cells of one direction of MediumGame/HardGame/InsaneGame.check_win.
DirCells(b, N, row, col, d, player) ==
    <<(<<row, col>>)>>
        \o Ray(b, N, row + Directions[d][1], col + Directions[d][2],
               Directions[d][1], Directions[d][2], player)
        \o Ray(b, N, row - Directions[d][1], col - Directions[d][2],
               -Directions[d][1], -Directions[d][2], player)

\* MediumGame/HardGame/InsaneGame.check_win with its literal count >= need:
\* the first direction whose count reaches need sets winning_cells.
RECURSIVE RunCheckFrom(_, _, _, _, _, _, _)
RunCheckFrom(b, N, row, col, need, d, old) ==
    IF d > 4 THEN [win |-> FALSE, cells |-> old]
    ELSE LET cells == DirCells(b, N, row, col, d, At(b, N, row, col))
         IN  IF Len(cells) >= need THEN [win |-> TRUE, cells |-> cells]
             ELSE RunCheckFrom(b, N, row, col, need, d + 1, old)

MediumCheckWin(b, row, col, old) == RunCheckFrom(b, 4, row, col, 4, 1, old)

HardCheckWin(b, row, col, old) == RunCheckFrom(b, 5, row, col, 5, 1, old)

InsaneCheckWin(b, row, col, old) == RunCheckFrom(b, 6, row, col, 6, 1, old)

\* EasyGame.check_win with its tests of the row and of the column only.
EasyCheckWin_row_and_column(b, row, col, old) ==
    LET player == At(b, 3, row, col)
    IN  IF \A c \in 0 .. 2 : At(b, 3, row, c) = player
        THEN [win |-> TRUE, cells |-> [i \in 1 .. 3 |-> <<row, i - 1>>]]
        ELSE IF \A r \in 0 .. 2 : At(b, 3, r, col) = player
        THEN [win |-> TRUE, cells |-> [i \in 1 .. 3 |-> <<i - 1, col>>]]
        ELSE [win |-> FALSE, cells |-> old]

\* EasyGame.check_win: whole row, whole column, then the two diagonals,
\* each diagonal only when the given (row, col) lies on it.
EasyCheckWin(b, row, col, old) ==
    LET player == At(b, 3, row, col)
    IN  IF \A c \in 0 .. 2 : At(b, 3, row, c) = player
        THEN [win |-> TRUE, cells |-> [i \in 1 .. 3 |-> <<row, i - 1>>]]
        ELSE IF \A r \in 0 .. 2 : At(b, 3, r, col) = player
        THEN [win |-> TRUE, cells |-> [i \in 1 .. 3 |-> <<i - 1, col>>]]
        ELSE IF row = col /\ \A i \in 0 .. 2 : b[<<i, i>>] = player
        THEN [win |-> TRUE, cells |-> [i \in 1 .. 3 |-> <<i - 1, i - 1>>]]
        ELSE IF row + col = 3 - 1 /\ \A i \in 0 .. 2 : b[<<i, 3 - 1 - i>>] = player
        THEN [win |-> TRUE, cells |-> [i \in 1 .. 3 |-> <<i - 1, 3 - 1 - (i - 1)>>]]
        ELSE [win |-> FALSE, cells |-> old]

\* check_win of the class GameManager.DIFFICULTIES picks for the size.
check_win(N, b, row, col, old) ==
    CASE N = 3 -> EasyCheckWin(b, row, col, old)
      [] N = 4 -> MediumCheckWin(b, row, col, old)
      [] N = 5 -> HardCheckWin(b, row, col, old)
      [] N = 6 -> InsaneCheckWin(b, row, col, old)

check_draw(N, b) == \A cell \in Cells(N) : b[cell] # None

(***************************************************************************)
(* The game state machine.                                                 *)
(***************************************************************************)
\* The result of make_move(row, col) on a game: the exception raised (None
\* when the call returns), the value returned (when it returns) and the
\* fields after the call.
Rejected(b, cp, over, win, wcells) ==
    [raised |-> None, ret |-> FALSE, board |-> b, current_player |-> cp,
     game_over |-> over, winner |-> win, winning_cells |-> wcells]

\* place_mark with the turn passing after every placement.
place_mark_always_switching(N, b, cp, over, win, wcells, row, col) ==
    LET placed == [b EXCEPT ![<<PyIdx(row, N), PyIdx(col, N)>>] = cp]
        won == check_win(N, placed, row, col, wcells)
    IN  [raised |-> None, ret |-> TRUE, board |-> placed,
         current_player |-> Other(cp),
         game_over |-> won.win \/ check_draw(N, placed),
         winner |-> IF won.win THEN cp ELSE win,
         winning_cells |-> won.cells]

\* place_mark with the turn never passing.
place_mark_keeping_turn(N, b, cp, over, win, wcells, row, col) ==
    LET placed == [b EXCEPT ![<<PyIdx(row, N), PyIdx(col, N)>>] = cp]
        won == check_win(N, placed, row, col, wcells)
    IN  [raised |-> None, ret |-> TRUE, board |-> placed,
         current_player |-> cp,
         game_over |-> won.win \/ check_draw(N, placed),
         winner |-> IF won.win THEN cp ELSE win,
         winning_cells |-> won.cells]

\* place_mark with the mark written to board[col][row].
place_mark_transposed(N, b, cp, over, win, wcells, row, col) ==
    LET placed == [b EXCEPT ![<<PyIdx(col, N), PyIdx(row, N)>>] = cp]
        won == check_win(N, placed, col, row, wcells)
    IN  [raised |-> None, ret |-> TRUE, board |-> placed,
         current_player |-> IF won.win \/ check_draw(N, placed) THEN cp
                            ELSE Other(cp),
         game_over |-> won.win \/ check_draw(N, placed),
         winner |-> IF won.win THEN cp ELSE win,
         winning_cells |-> won.cells]

\* The body of make_move once the move is accepted: the mark is placed,
\* then check_win, then check_draw, else the turn passes.
place_mark(N, b, cp, over, win, wcells, row, col) ==
    LET placed == [b EXCEPT ![<<PyIdx(row, N), PyIdx(col, N)>>] = cp]
        won == check_win(N, placed, row, col, wcells)
    IN  IF won.win
        THEN [raised |-> None, ret |-> TRUE, board |-> placed,
              current_player |-> cp,
              game_over |-> TRUE, winner |-> cp,
              winning_cells |-> won.cells]
        ELSE IF check_draw(N, placed)
        THEN [raised |-> None, ret |-> TRUE, board |-> placed,
              current_player |-> cp,
              game_over |-> TRUE, winner |-> win,
              winning_cells |-> won.cells]
        ELSE [raised |-> None, ret |-> TRUE, board |-> placed,
              current_player |-> Other(cp),
              game_over |-> over, winner |-> win,
              winning_cells |-> won.cells]

\* make_move without the game_over test of its guard.
make_move_after_game_over(N, b, cp, over, win, wcells, row, col) ==
    IF ~(InIndex(row, N) /\ InIndex(col, N))
    THEN [Rejected(b, cp, over, win, wcells) EXCEPT !.raised = IndexError]
    ELSE IF At(b, N, row, col) # None THEN Rejected(b, cp, over, win, wcells)
    ELSE place_mark(N, b, cp, over, win, wcells, row, col)

\* make_move without the occupied-cell test of its guard.
make_move_overwriting(N, b, cp, over, win, wcells, row, col) ==
    IF over THEN Rejected(b, cp, over, win, wcells)
    ELSE IF ~(InIndex(row, N) /\ InIndex(col, N))
    THEN [Rejected(b, cp, over, win, wcells) EXCEPT !.raised = IndexError]
    ELSE place_mark(N, b, cp, over, win, wcells, row, col)

\* make_move: `if self.game_over or self.board[row][col] is not None:
\* return False`, the second operand being evaluated only when the game is
\* not over, and raising IndexError when an index is outside [-N, N).
make_move(N, b, cp, over, win, wcells, row, col) ==
    IF over THEN Rejected(b, cp, over, win, wcells)
    ELSE IF ~(InIndex(row, N) /\ InIndex(col, N))
    THEN [Rejected(b, cp, over, win, wcells) EXCEPT !.raised = IndexError]
    ELSE IF At(b, N, row, col) # None THEN Rejected(b, cp, over, win, wcells)
    ELSE place_mark(N, b, cp, over, win, wcells, row, col)

\* The in-range cells the host plays on for the player to move.
PlayCells(N, player) ==
    IF N = 3 THEN Cells(N)
    ELSE {cell \in Cells(N) : /\ cell[1] = (IF player = "X" THEN 0 ELSE 1)
                              /\ cell[2] < RegionCols}

\* Out-of-range coordinates the host passes: a negative column, a negative
\* row, a row and a column past the end.
OutOfRange(N) == {<<0, -1>>, <<-1, 0>>, <<N, 0>>, <<0, N>>}

MoveInputs(N, player) == PlayCells(N, player) \cup OutOfRange(N)

Init ==
    /\ size \in Sizes
    /\ board = EmptyBoard(size)
    /\ current_player = "X"
    /\ game_over = FALSE
    /\ winner = None
    /\ winning_cells = <<>>
    /\ call = [op |-> "init"]
    /\ last_move = NoMove
    /\ held = NoBoard

MakeMove(row, col) ==
    LET r == make_move(size, board, current_player, game_over, winner,
                       winning_cells, row, col)
    IN  /\ board' = r.board
        /\ current_player' = r.current_player
        /\ game_over' = r.game_over
        /\ winner' = r.winner
        /\ winning_cells' = r.winning_cells
        /\ call' = [op |-> "make_move", row |-> row, col |-> col,
                    raised |-> r.raised, ret |-> r.ret]
        /\ UNCHANGED <<size, last_move, held>>

\* reset with the player to move left as it is.
reset_keeping_player(N, b, cp, over, win, wcells) ==
    [board |-> EmptyBoard(N), current_player |-> cp, game_over |-> FALSE,
     winner |-> None, winning_cells |-> <<>>]

\* The fields after reset().
reset(N, b, cp, over, win, wcells) ==
    [board |-> EmptyBoard(N), current_player |-> "X", game_over |-> FALSE,
     winner |-> None, winning_cells |-> <<>>]

\* reset(); the call records whether it found the game over, and its winner.
Reset ==
    LET r == reset(size, board, current_player, game_over, winner,
                   winning_cells)
    IN  /\ board' = r.board
        /\ current_player' = r.current_player
        /\ game_over' = r.game_over
        /\ winner' = r.winner
        /\ winning_cells' = r.winning_cells
        /\ call' = [op |-> "reset", over |-> game_over, winner |-> winner]
        /\ UNCHANGED <<size, last_move, held>>

Next ==
    \/ \E input \in MoveInputs(size, current_player) : MakeMove(input[1], input[2])
    \/ Reset

Spec == Init /\ [][Next]_vars

(***************************************************************************)
(* GameManager (game_manager.py) around a game of one of the four classes. *)
(***************************************************************************)
\* The host's direct moves on the manager's game are drawn from the first
\* ManagerCols columns of row 0 for X (a whole line on 3x3) and from the
\* first ManagerCols - 1 columns of row 1 for O.
ManagerCols == 3

\* The host writes to the list get_board gave it at most MaxWrites times.
MaxWrites == 2

AttributeError == "AttributeError"

ValueError == "ValueError"

RuntimeError == "RuntimeError"

\* The methods class GameManager defines.
ManagerMethods ==
    {"__init__", "_validate_difficulty", "set_difficulty", "get_board_size",
     "make_move", "get_board", "get_current_player", "is_game_over",
     "get_winner", "get_winning_cells", "get_last_move", "reset"}

\* Move(row, col): __post_init__ raises ValueError on a negative coordinate.
Move(row, col) ==
    [raised |-> IF row < 0 \/ col < 0 THEN ValueError ELSE None,
     move |-> <<row, col>>]

\* GameManager.make_move: the exception that leaves the call (None when it
\* returns), the value returned, the game's fields and last_move after it.
\* The try block starts with self._save_state(); any exception takes the
\* handler, which calls self._restore_state() and then raises RuntimeError.
\* A method the class does not define raises AttributeError, from the
\* handler too.  (_save_state and _restore_state are not defined: the
\* branches after them are as the code has them, with both as no-ops.)
manager_make_move(N, b, cp, over, win, wcells, lm, row, col) ==
    LET same == [Rejected(b, cp, over, win, wcells) EXCEPT !.raised = None]
        handler(fields) ==
            IF "_restore_state" \notin ManagerMethods
            THEN [fields EXCEPT !.raised = AttributeError, !.ret = FALSE]
                     @@ [last_move |-> lm]
            ELSE [fields EXCEPT !.raised = RuntimeError, !.ret = FALSE]
                     @@ [last_move |-> lm]
        move == Move(row, col)
        r == make_move(N, b, cp, over, win, wcells, row, col)
    IN  IF "_save_state" \notin ManagerMethods THEN handler(same)
        ELSE IF move.raised # None THEN handler(same)
        ELSE IF r.raised # None THEN handler(r)
        ELSE r @@ [last_move |-> IF r.ret THEN move.move ELSE lm]

\* GameManager.reset: self.game.reset(), then self.last_move = Move(-1, -1),
\* whose construction raises before the assignment.
manager_reset(N, b, cp, over, win, wcells, lm) ==
    LET r == reset(N, b, cp, over, win, wcells)
        move == Move(-1, -1)
    IN  r @@ [raised |-> move.raised,
              last_move |-> IF move.raised = None THEN move.move ELSE lm]

\* get_board handing out the game's own rows in a new list.
get_board_sharing_rows(b, N) ==
    [taken |-> TRUE, shared |-> 0 .. N - 1, cells |-> b, writes |-> 0]

\* get_board: [row.copy() for row in self.game.board], a new list of new
\* rows.
get_board(b, N) ==
    [taken |-> TRUE, shared |-> {}, cells |-> b, writes |-> 0]

\* The cell the host reads through the list it holds.
HeldAt(h, b, cell) == IF cell[1] \in h.shared THEN b[cell] ELSE h.cells[cell]

ManagerCells(N, player) ==
    {cell \in Cells(N) :
        \/ player = "X" /\ cell[1] = 0 /\ cell[2] < ManagerCols
        \/ player = "O" /\ cell[1] = 1 /\ cell[2] < ManagerCols - 1}

\* The cells and marks the host writes into the list it holds.
WriteCells == {<<0, 0>>}

WriteMarks == {"X", "O", None}

ManagerMakeMove(row, col) ==
    LET r == manager_make_move(size, board, current_player, game_over, winner,
                               winning_cells, last_move, row, col)
    IN  /\ board' = r.board
        /\ current_player' = r.current_player
        /\ game_over' = r.game_over
        /\ winner' = r.winner
        /\ winning_cells' = r.winning_cells
        /\ last_move' = r.last_move
        /\ call' = [op |-> "manager_make_move", row |-> row, col |-> col,
                    raised |-> r.raised, ret |-> r.ret]
        /\ UNCHANGED <<size, held>>

ManagerReset ==
    LET r == manager_reset(size, board, current_player, game_over, winner,
                           winning_cells, last_move)
    IN  /\ board' = r.board
        /\ current_player' = r.current_player
        /\ game_over' = r.game_over
        /\ winner' = r.winner
        /\ winning_cells' = r.winning_cells
        /\ last_move' = r.last_move
        /\ call' = [op |-> "manager_reset", raised |-> r.raised,
                    over |-> game_over]
        /\ UNCHANGED <<size, held>>

GetBoard ==
    /\ ~held.taken
    /\ held' = get_board(board, size)
    /\ call' = [op |-> "get_board"]
    /\ UNCHANGED gameVars
    /\ UNCHANGED last_move

\* The host assigns held[r][c] = mark: a write to the row object, which is
\* the game's row when the row is shared.
WriteCell(cell, mark) ==
    /\ held.taken
    /\ held.writes < MaxWrites
    /\ held' = [held EXCEPT !.cells[cell] = mark, !.writes = @ + 1]
    /\ board' = IF cell[1] \in held.shared
                THEN [board EXCEPT ![cell] = mark] ELSE board
    /\ call' = [op |-> "write_cell", cell |-> cell, mark |-> mark]
    /\ UNCHANGED <<size, current_player, game_over, winner, winning_cells,
                   last_move>>

\* The host assigns held[r] = [mark] * size: a write to the list get_board
\* built, after which row r of it is the host's own.
WriteRow(r, mark) ==
    /\ held.taken
    /\ held.writes < MaxWrites
    /\ held' = [held EXCEPT
                    !.cells = [cell \in Cells(size) |->
                                  IF cell[1] = r THEN mark
                                  ELSE HeldAt(held, board, cell)],
                    !.shared = @ \ {r},
                    !.writes = @ + 1]
    /\ call' = [op |-> "write_row", row |-> r, mark |-> mark]
    /\ UNCHANGED gameVars
    /\ UNCHANGED last_move

NextManager ==
    \/ \E cell \in ManagerCells(size, current_player) :
           ManagerMakeMove(cell[1], cell[2])
    \/ \E cell \in {<<-1, 0>>, <<size, 0>>} : ManagerMakeMove(cell[1], cell[2])
    \/ ManagerReset
    \/ \E cell \in ManagerCells(size, current_player) : MakeMove(cell[1], cell[2])
    \/ GetBoard
    \/ \E cell \in WriteCells, mark \in WriteMarks : WriteCell(cell, mark)
    \/ \E mark \in WriteMarks : WriteRow(0, mark)

SpecManager == Init /\ [][NextManager]_vars

(***************************************************************************)
(* The search engine (ai.py).                                              *)
(*                                                                         *)
(* The scores of the search are Python floats (IEEE 754 doubles) built     *)
(* from the literal 0.1 by products with small integers, sums and          *)
(* differences, and the integers 1 and -1.  The double 0.1 is T * 2^-56    *)
(* with T = 7205759403792794 and 10 * T = 2^56 + 4, and every score is a   *)
(* whole number of units 2^-56.  A score is kept as the integer            *)
(* K * Scale + D that stands for K * T + D units, with |D| far below       *)
(* Scale / 2: K counts tenths and D is the rounding error carried so far.  *)
(* Order, negation and equality of scores are those of the integers.  The  *)
(* integer 1 is 2^56 units, that is K = 10, D = -4.  Each float operation  *)
(* rounds its exact result to 53 significant bits, ties to even.           *)
(* Move-ordering scores are kept in units of 1 / (2 * size), in which      *)
(* their float order is the exact order.                                   *)
(***************************************************************************)
Scale == 100000

\* T modulo 2^16: the low bits of the double 0.1.
TenthLow == 39322

\* float('inf')
Infinity == 1000000000

\* The integer 1 as a score.
One == 10 * Scale - 4

\* K and D of a score S >= 0.
FloatK(S) == (S + Scale \div 2) \div Scale

FloatD(S) == S - FloatK(S) * Scale

\* K * T + D >= 2^(52 + q), for K >= 1.
AtLeastPow(K, D, q) ==
    \/ 16 * K > 10 * 2 ^ q
    \/ 16 * K = 10 * 2 ^ q /\ 4 * K + 10 * D >= 0

\* The exponent of the last mantissa bit of K * T + D, in units.
RECURSIVE LastBit(_, _, _)
LastBit(K, D, q) == IF AtLeastPow(K, D, q + 1) THEN LastBit(K, D, q + 1) ELSE q

\* Round to nearest, ties to even, of an exact result S >= 0.
RoundPos(S) ==
    LET K == FloatK(S)
        D == FloatD(S)
        q == LastBit(K, D, 0)
        rem == (K * TenthLow + D) % (2 ^ q)
        odd == ((K * TenthLow + D - rem) % (2 ^ (q + 1))) = 2 ^ q
    IN  IF K = 0 \/ q = 0 THEN S
        ELSE IF 2 * rem < 2 ^ q THEN S - rem
        ELSE IF 2 * rem > 2 ^ q THEN S - rem + 2 ^ q
        ELSE IF odd THEN S - rem + 2 ^ q
        ELSE S - rem

FloatRound(S) == IF S < 0 THEN -RoundPos(-S) ELSE RoundPos(S)

\* score + t and score - t as the float operations compute them.
FloatAdd(a, b) == FloatRound(a + b)

\* 0.1 * n
FloatTenth(n) == FloatRound(n * Scale)

TypeError == "TypeError"

Levels == 1 .. 10

\* AIPlayer.win_requirements.get(size, 3)
win_requirements(N) ==
    CASE N = 3 -> 3
      [] N = 4 -> 4
      [] N = 5 -> 5
      [] N = 6 -> 5
      [] OTHER -> 3

\* AIPlayer.depth_limits[level]
depth_limits(level) ==
    CASE level = 1 -> 0
      [] level = 2 -> 1
      [] level = 3 -> 1
      [] level = 4 -> 2
      [] level = 5 -> 2
      [] level = 6 -> 3
      [] level = 7 -> 4
      [] level = 8 -> 5
      [] level = 9 -> 6
      [] level = 10 -> 7

Max(a, b) == IF a >= b THEN a ELSE b

Abs(a) == IF a < 0 THEN -a ELSE a

\* Position of a cell in the row-major scans "for r ... for c ...".
RowMajor(N, cell) == cell[1] * N + cell[2]

\* The first cell of a non-empty set in row-major order.
FirstCell(N, S) == CHOOSE cell \in S : \A o \in S : RowMajor(N, cell) <= RowMajor(N, o)

EmptyCells(b, N) == {cell \in Cells(N) : b[cell] = None}

Place(b, cell, mark) == [b EXCEPT ![cell] = mark]

\* Number of cells one while loop of _check_win / _check_potential counts:
\* from (r, c) in steps of (dr, dc) while the cell is on the board and holds
\* player (or, when open, holds player or is empty).
RECURSIVE Run(_, _, _, _, _, _, _, _)
Run(b, N, r, c, dr, dc, player, open) ==
    IF OnBoard(N, r, c) /\ (b[<<r, c>>] = player \/ (open /\ b[<<r, c>>] = None))
    THEN 1 + Run(b, N, r + dr, c + dc, dr, dc, player, open)
    ELSE 0

\* count of one direction: the cell itself, the positive and the negative run.
DirCount(b, N, player, row, col, d, open) ==
    1 + Run(b, N, row + Directions[d][1], col + Directions[d][2],
            Directions[d][1], Directions[d][2], player, open)
      + Run(b, N, row - Directions[d][1], col - Directions[d][2],
            -Directions[d][1], -Directions[d][2], player, open)

\* _check_win with the run in the positive direction only.
_check_win_forward_only(b, N, player, row, col, required) ==
    \E d \in 1 .. 4 :
        1 + Run(b, N, row + Directions[d][1], col + Directions[d][2],
                Directions[d][1], Directions[d][2], player, FALSE) >= required

\* _check_potential counting the cells that hold player only.
_check_potential_marks_only(b, N, player, row, col, required) ==
    \E d \in 1 .. 4 : DirCount(b, N, player, row, col, d, FALSE) >= required

_check_win(b, N, player, row, col, required) ==
    \E d \in 1 .. 4 : DirCount(b, N, player, row, col, d, FALSE) >= required

_check_potential(b, N, player, row, col, required) ==
    \E d \in 1 .. 4 : DirCount(b, N, player, row, col, d, TRUE) >= required

\* The cells _get_winning_move would return if its scan reached them.
CompletingCells(b, N, player, required) ==
    {cell \in EmptyCells(b, N) :
        _check_win(Place(b, cell, player), N, player, cell[1], cell[2], required)}

\* _get_winning_move: the first completing cell of the row-major scan, or
\* None.
_get_winning_move(b, N, player, required) ==
    LET S == CompletingCells(b, N, player, required)
    IN  IF S = {} THEN NoMove ELSE FirstCell(N, S)

\* _get_random_move: the cells random.choice may return; no cell on a full
\* board, where the code raises ValueError.
_get_random_move(b, N) == EmptyCells(b, N)

\* _count_potential_lines
_count_potential_lines(b, N, player, required) ==
    Cardinality({cell \in EmptyCells(b, N) :
        _check_potential(Place(b, cell, player), N, player, cell[1], cell[2],
                         required)})

\* _simple_evaluate: an integer, 1 or -1 at the first cell of the scan that
\* lies on a complete line, else the difference of the potential counts.
_simple_evaluate(b, N, player, required) ==
    LET opponent == Other(player)
        lined == {cell \in Cells(N) :
                    /\ b[cell] # None
                    /\ _check_win(b, N, b[cell], cell[1], cell[2], required)}
        player_potential ==
            Cardinality({cell \in EmptyCells(b, N) :
                _check_potential(b, N, player, cell[1], cell[2], required)})
        opponent_potential ==
            Cardinality({cell \in EmptyCells(b, N) :
                _check_potential(b, N, opponent, cell[1], cell[2], required)})
    IN  IF lined # {}
        THEN (IF b[FirstCell(N, lined)] = player THEN 1 ELSE -1)
        ELSE player_potential - opponent_potential

\* The loop of _advanced_evaluate over the cells in row-major order, from
\* the cell at position i on: at each empty cell score += 0.1 * the
\* player's count, then score -= 0.1 * the opponent's count.
RECURSIVE EvaluateFrom(_, _, _, _, _, _)
EvaluateFrom(b, N, player, required, i, score) ==
    IF i >= N * N THEN score
    ELSE LET cell == <<i \div N, i % N>>
             mine == _count_potential_lines(Place(b, cell, player), N, player,
                                            required)
             theirs == _count_potential_lines(Place(b, cell, Other(player)), N,
                                              Other(player), required)
         IN  IF b[cell] # None
             THEN EvaluateFrom(b, N, player, required, i + 1, score)
             ELSE EvaluateFrom(b, N, player, required, i + 1,
                      FloatAdd(FloatAdd(score, FloatTenth(mine)),
                               -FloatTenth(theirs)))

\* _advanced_evaluate
_advanced_evaluate(b, N, player, required) ==
    IF _get_winning_move(b, N, player, required) # NoMove THEN One
    ELSE IF _get_winning_move(b, N, Other(player), required) # NoMove THEN -One
    ELSE EvaluateFrom(b, N, player, required, 0, 0)

\* score of a cell in _get_ordered_moves, times 2 * size.
MoveScore(b, N, cell, required) ==
    LET center == N \div 2
        dist == Max(Abs(cell[1] - center), Abs(cell[2] - center))
        potential(mark) ==
            IF _check_potential(Place(b, cell, mark), N, mark, cell[1], cell[2],
                                required)
            THEN 1 ELSE 0
    IN  2 * (N - dist) + N * (potential("X") + potential("O"))

\* The list of the cells in row-major order, as it is before the sort.
RECURSIVE SortMovesRowMajor(_, _, _)
SortMovesRowMajor(score, N, S) ==
    IF S = {} THEN <<>>
    ELSE <<FirstCell(N, S)>> \o SortMovesRowMajor(score, N, S \ {FirstCell(N, S)})

\* moves.sort(key=score, reverse=True) on the row-major list: descending
\* score, equal scores in row-major order.
RECURSIVE SortMoves(_, _, _)
SortMoves(score, N, S) ==
    IF S = {} THEN <<>>
    ELSE LET top == {cell \in S : \A o \in S : score[cell] >= score[o]}
             first == FirstCell(N, top)
         IN  <<first>> \o SortMoves(score, N, S \ {first})

\* _get_ordered_moves: one MoveEvaluation object when X, else O, has a
\* completing cell ("evaluation"); otherwise the sorted list of (row, col)
\* tuples ("tuples").
_get_ordered_moves(b, N, required) ==
    LET x_move == _get_winning_move(b, N, "X", required)
        o_move == _get_winning_move(b, N, "O", required)
        score == [cell \in EmptyCells(b, N) |-> MoveScore(b, N, cell, required)]
    IN  IF x_move # NoMove THEN [kind |-> "evaluation", moves |-> <<x_move>>]
        ELSE IF o_move # NoMove THEN [kind |-> "evaluation", moves |-> <<o_move>>]
        ELSE [kind |-> "tuples", moves |-> SortMoves(score, N, EmptyCells(b, N))]

\* _negamax: [ok |-> TRUE, v |-> score] on a return, [ok |-> FALSE, board
\* |-> the board as the raise leaves it] when "r, c = move" meets a
\* MoveEvaluation object.  No caller undoes its placement on the way out of
\* a raise.
RECURSIVE _negamax(_, _, _, _, _, _, _)
RECURSIVE NegamaxLoop(_, _, _, _, _, _, _, _, _, _)
_negamax(b, N, depth, alpha, beta, player, required) ==
    IF _check_win(b, N, Other(player), -1, -1, required)
    THEN [ok |-> TRUE, v |-> -One]
    ELSE IF depth = 0
    THEN [ok |-> TRUE, v |-> _advanced_evaluate(b, N, player, required)]
    ELSE LET ordered == _get_ordered_moves(b, N, required)
         IN  IF ordered.kind = "evaluation"
             THEN [ok |-> FALSE, board |-> b]
             ELSE NegamaxLoop(b, N, depth, alpha, beta, player, required,
                              ordered.moves, 1, -Infinity)

NegamaxLoop(b, N, depth, alpha, beta, player, required, moves, i, max_score) ==
    IF i > Len(moves) THEN [ok |-> TRUE, v |-> max_score]
    ELSE LET child == _negamax(Place(b, moves[i], player), N, depth - 1,
                               -beta, -alpha, Other(player), required)
         IN  IF ~child.ok THEN child
             ELSE IF Max(alpha, -child.v) >= beta
             THEN [ok |-> TRUE, v |-> Max(max_score, -child.v)]
             ELSE NegamaxLoop(b, N, depth, Max(alpha, -child.v), beta, player,
                              required, moves, i + 1, Max(max_score, -child.v))

\* The exits of get_move: the move it returns, or the exception it raises,
\* and the caller's board after it.
Exit(move, b) == [raised |-> None, ret |-> move, board |-> b]

Raise(exception, b) == [raised |-> exception, ret |-> NoMove, board |-> b]

\* One pass "for move in ordered_moves" of _get_expert_move at one depth.
RECURSIVE ExpertPass(_, _, _, _, _, _, _, _, _)
ExpertPass(b, N, player, required, depth, moves, i, best_move, best_score) ==
    IF i > Len(moves)
    THEN [kind |-> "done", best_move |-> best_move, best_score |-> best_score]
    ELSE LET child == _negamax(Place(b, moves[i], player), N, depth - 1,
                               -Infinity, Infinity, Other(player), required)
         IN  IF ~child.ok THEN [kind |-> "raise", board |-> child.board]
             ELSE IF -child.v > best_score
             THEN (IF -child.v = One
                   THEN [kind |-> "win", best_move |-> moves[i]]
                   ELSE ExpertPass(b, N, player, required, depth, moves, i + 1,
                                   moves[i], -child.v))
             ELSE ExpertPass(b, N, player, required, depth, moves, i + 1,
                             best_move, best_score)

\* The depth loop of _get_expert_move: the exits it can take from the check
\* of the clock before the pass at depth on.  The clock may be past the
\* deadline at any check.
RECURSIVE ExpertDepths(_, _, _, _, _, _, _, _, _)
ExpertDepths(b, N, player, required, limit, moves, depth, best_move, best_score) ==
    IF depth > limit THEN {Exit(best_move, b)}
    ELSE {Exit(best_move, b)} \cup
         LET pass == ExpertPass(b, N, player, required, depth, moves, 1,
                                best_move, best_score)
         IN  CASE pass.kind = "raise" -> {Raise(TypeError, pass.board)}
               [] pass.kind = "win" -> {Exit(pass.best_move, b)}
               [] pass.kind = "done" ->
                    ExpertDepths(b, N, player, required, limit, moves, depth + 1,
                                 pass.best_move, pass.best_score)

\* _get_expert_move (levels 7-10).
_get_expert_move(b, N, player, required, level) ==
    LET ordered == _get_ordered_moves(b, N, required)
        best_move == IF Len(ordered.moves) > 0 THEN ordered.moves[1] ELSE <<0, 0>>
    IN  IF ordered.kind = "evaluation"
        THEN {Exit(best_move, b), Raise(TypeError, b)}
        ELSE ExpertDepths(b, N, player, required, depth_limits(level),
                          ordered.moves, 1, best_move, -Infinity)

\* The loop "for r, c in moves" of _get_advanced_move: the moves it can end
\* with from the check of the clock before moves[i] on.
RECURSIVE AdvancedLoop(_, _, _, _, _, _, _, _)
AdvancedLoop(b, N, player, required, moves, i, best_move, best_score) ==
    IF i > Len(moves) THEN {best_move}
    ELSE {best_move} \cup
         LET score == _simple_evaluate(Place(b, moves[i], player), N, player,
                                       required)
         IN  IF score > best_score
             THEN (IF score = 1 THEN {moves[i]}
                   ELSE AdvancedLoop(b, N, player, required, moves, i + 1,
                                     moves[i], score))
             ELSE AdvancedLoop(b, N, player, required, moves, i + 1,
                               best_move, best_score)

\* _get_advanced_move (levels 4-6).
_get_advanced_move(b, N, player, required) ==
    LET ordered == _get_ordered_moves(b, N, required)
        best_move == IF Len(ordered.moves) > 0 THEN ordered.moves[1] ELSE <<0, 0>>
        empty_count == Cardinality(EmptyCells(b, N))
    IN  IF empty_count > N * N - 3 THEN {Exit(best_move, b)}
        ELSE IF ordered.kind = "evaluation" THEN {Raise(TypeError, b)}
        ELSE {Exit(move, b) :
                move \in AdvancedLoop(b, N, player, required, ordered.moves, 1,
                                      best_move, -Infinity)}

\* The exits of _get_random_move as get_move passes them on.
RandomExits(b, N) ==
    IF _get_random_move(b, N) = {} THEN {Raise(ValueError, b)}
    ELSE {Exit(cell, b) : cell \in _get_random_move(b, N)}

\* _get_basic_strategy_move (levels 2-3): a random move on one side of the
\* coin; on the other the centre, else the first empty cell with a
\* potential line, else a random move.
_get_basic_strategy_move(b, N, player, required) ==
    LET center == N \div 2
        potential == {cell \in EmptyCells(b, N) :
                        _check_potential(Place(b, cell, player), N, player,
                                         cell[1], cell[2], required)}
    IN  RandomExits(b, N) \cup
        (IF b[<<center, center>>] = None THEN {Exit(<<center, center>>, b)}
         ELSE IF potential # {} THEN {Exit(FirstCell(N, potential), b)}
         ELSE RandomExits(b, N))

\* get_move with the opponent's completing cell looked for before the
\* mover's own.
get_move_blocking_first(b, N, current_player_, level) ==
    LET required == win_requirements(N)
        opponent == Other(current_player_)
        win == _get_winning_move(b, N, current_player_, required)
        block == _get_winning_move(b, N, opponent, required)
    IN  IF block # NoMove THEN {Exit(block, b)}
        ELSE IF win # NoMove THEN {Exit(win, b)}
        ELSE IF level = 1 THEN RandomExits(b, N)
        ELSE IF level <= 3 THEN _get_basic_strategy_move(b, N, current_player_, required)
        ELSE IF level <= 6 THEN _get_advanced_move(b, N, current_player_, required)
        ELSE _get_expert_move(b, N, current_player_, required, level)

\* get_move without the search for the opponent's completing cell.
get_move_without_block(b, N, current_player_, level) ==
    LET required == win_requirements(N)
        win == _get_winning_move(b, N, current_player_, required)
    IN  IF win # NoMove THEN {Exit(win, b)}
        ELSE IF level = 1 THEN RandomExits(b, N)
        ELSE IF level <= 3 THEN _get_basic_strategy_move(b, N, current_player_, required)
        ELSE IF level <= 6 THEN _get_advanced_move(b, N, current_player_, required)
        ELSE _get_expert_move(b, N, current_player_, required, level)

\* get_move on a square board with current_player X or O: every exit the
\* call can take.
get_move(b, N, current_player_, level) ==
    LET required == win_requirements(N)
        opponent == Other(current_player_)
        win == _get_winning_move(b, N, current_player_, required)
        block == _get_winning_move(b, N, opponent, required)
    IN  IF win # NoMove THEN {Exit(win, b)}
        ELSE IF block # NoMove THEN {Exit(block, b)}
        ELSE IF level = 1 THEN RandomExits(b, N)
        ELSE IF level <= 3 THEN _get_basic_strategy_move(b, N, current_player_, required)
        ELSE IF level <= 6 THEN _get_advanced_move(b, N, current_player_, required)
        ELSE _get_expert_move(b, N, current_player_, required, level)

(***************************************************************************)
(* The boards the search engine is called on.                              *)
(***************************************************************************)
Marks == {None, "X", "O"}

\* The fixed part of a board larger than 3x3: row 0 empty; below it, under
\* each free cell, a column of one mark one short of a line (X under even
\* columns, O under odd ones); the other columns alternate cell by cell.
Background(N) ==
    [cell \in Cells(N) |->
        LET r == cell[1]
            c == cell[2]
            col_mark == IF c % 2 = 0 THEN "X" ELSE "O"
        IN  IF r = 0 THEN None
            ELSE IF c >= FreeCols THEN (IF (r + c) % 2 = 0 THEN "X" ELSE "O")
            ELSE IF N = 6 /\ r = 5 THEN Other(col_mark)
            ELSE col_mark]

FreeCells(N) == {cell \in Cells(N) : cell[1] = 0 /\ cell[2] < FreeCols}

CountOf(b, N, mark) == Cardinality({cell \in Cells(N) : b[cell] = mark})

\* Boards of alternating play that X opens, as test_ai.py and the game
\* classes play: X has as many marks as O, or one more.
Balanced(b, N) ==
    \/ CountOf(b, N, "X") = CountOf(b, N, "O")
    \/ CountOf(b, N, "X") = CountOf(b, N, "O") + 1

\* The player to move on such a board.
ToMove(b, N) == IF CountOf(b, N, "X") = CountOf(b, N, "O") THEN "X" ELSE "O"

AIBoards(N) ==
    IF N = 3 THEN {b \in [Cells(3) -> Marks] : Balanced(b, 3)}
    ELSE {b \in {[cell \in Cells(N) |->
                    IF cell \in FreeCells(N) THEN fill[cell]
                    ELSE Background(N)[cell]] :
                 fill \in [FreeCells(N) -> Marks]} : Balanced(b, N)}

InitAI ==
    /\ size \in Sizes
    /\ board \in AIBoards(size)
    /\ current_player = "X"
    /\ game_over = FALSE
    /\ winner = None
    /\ winning_cells = <<>>
    /\ call = [op |-> "init"]
    /\ last_move = NoMove
    /\ held = NoBoard

\* One call get_move(board, player) on an AIPlayer(level), for the player
\* to move on the board.
GetMove(level, player) ==
    /\ call.op = "init"
    /\ player = ToMove(board, size)
    /\ \E exit \in get_move(board, size, player, level) :
        /\ board' = exit.board
        /\ call' = [op |-> "get_move", level |-> level, player |-> player,
                    raised |-> exit.raised, ret |-> exit.ret, before |-> board]
        /\ UNCHANGED <<size, current_player, game_over, winner, winning_cells,
                       last_move, held>>

NextAI == \E level \in Levels, player \in {"X", "O"} : GetMove(level, player)

SpecAI == InitAI /\ [][NextAI]_vars

(***************************************************************************)
(* The entry checks of the search engine: AIPlayer(difficulty_level) and   *)
(* get_move on a list of rows of any lengths, all cells None.  shape is    *)
(* the sequence of the row lengths; the board is a function of the cells   *)
(* the rows have.                                                          *)
(***************************************************************************)
\* Boards of at most MaxRows rows of at most MaxRowLen cells.
MaxRows == 3

MaxRowLen == 4

\* Difficulty levels handed to the constructor: MinLevel .. MaxLevel.
MinLevel == 0

MaxLevel == 11

Shapes == UNION {[1 .. n -> 0 .. MaxRowLen] : n \in 0 .. MaxRows}

RowsCells(shape) ==
    {cell \in (0 .. Len(shape) - 1) \X (0 .. MaxRowLen - 1) :
        cell[2] < shape[cell[1] + 1]}

RowsBoard(shape) == [cell \in RowsCells(shape) |-> None]

\* The marks handed to get_move: X, O and one that is neither.
EntryMarks == {"X", "O", "Z"}

\* AIPlayer.__init__: the exception raised, None when the object is built.
AIPlayer(difficulty_level) ==
    IF ~(1 <= difficulty_level /\ difficulty_level <= 10)
    THEN ValueError ELSE None

\* The cells next to cell in the four directions, both ways, that pass the
\* range test 0 <= r < len(board) and 0 <= c < len(board) of _check_win.
Neighbours(N, cell) ==
    {other \in Cells(N) :
        \E d \in 1 .. 4, way \in {1, -1} :
            other = <<cell[1] + way * Directions[d][1],
                      cell[2] + way * Directions[d][2]>>}

\* The first cell of the row-major scan of _get_winning_move at which an
\* index fails on rows of these lengths: board[r][c] of the cell, or
\* board[r][c] of a neighbour that _check_win reads.
ScanStops(shape, N) ==
    {cell \in Cells(N) :
        \/ cell \notin RowsCells(shape)
        \/ \E other \in Neighbours(N, cell) : other \notin RowsCells(shape)}

\* get_move on rows of these lengths: the checks of lines 71-74, then the
\* scan for a winning move, which raises IndexError on a short row with
\* the trial mark still on the board; rows that are long enough are read
\* in their first len(board) cells only.
get_move_on_rows(shape, current_player_, level) ==
    LET b == RowsBoard(shape)
        N == Len(shape)
        stop == FirstCell(N, ScanStops(shape, N))
    IN  IF Len(shape) = 0 \/ Len(shape) # shape[1] THEN {Raise(ValueError, b)}
        ELSE IF current_player_ \notin {"X", "O"} THEN {Raise(ValueError, b)}
        ELSE IF \E r \in 1 .. N : shape[r] < N
        THEN {Raise(IndexError,
                    IF stop \in RowsCells(shape)
                    THEN [b EXCEPT ![stop] = current_player_] ELSE b)}
        ELSE {[exit EXCEPT !.board =
                   [cell \in RowsCells(shape) |->
                       IF cell \in Cells(N) THEN exit.board[cell] ELSE None]] :
                 exit \in get_move(EmptyBoard(N), N, current_player_, level)}

InitEntry ==
    /\ \E shape \in Shapes :
           /\ size = Len(shape)
           /\ board = RowsBoard(shape)
           /\ call = [op |-> "init", shape |-> shape]
    /\ current_player = "X"
    /\ game_over = FALSE
    /\ winner = None
    /\ winning_cells = <<>>
    /\ last_move = NoMove
    /\ held = NoBoard

\* AIPlayer(level)
Construct(level) ==
    /\ call.op = "init"
    /\ call' = [op |-> "AIPlayer", shape |-> call.shape, level |-> level,
                raised |-> AIPlayer(level)]
    /\ UNCHANGED <<gameVars, last_move, held>>

\* AIPlayer(level).get_move(board, mark) on the rows of the state.
GetMoveOnRows(level, mark) ==
    /\ call.op = "init"
    /\ \E exit \in get_move_on_rows(call.shape, mark, level) :
        /\ board' = exit.board
        /\ call' = [op |-> "get_move", shape |-> call.shape, level |-> level,
                    player |-> mark, raised |-> exit.raised, ret |-> exit.ret,
                    before |-> board]
    /\ UNCHANGED <<size, current_player, game_over, winner, winning_cells,
                   last_move, held>>

NextEntry ==
    \/ \E level \in MinLevel .. MaxLevel : Construct(level)
    \/ \E level \in Levels, mark \in EntryMarks : GetMoveOnRows(level, mark)

SpecEntry == InitEntry /\ [][NextEntry]_vars

(***************************************************************************)
(* The self-play harness (test_ai.py): one game of test_ai_level(level),   *)
(* get_move answering for both marks.  current_player is the harness's     *)
(* player, game_over says that the loop has ended by a break, winner is    *)
(* the mark whose win ended it.                                            *)
(***************************************************************************)
\* board_size of test_ai_level as __main__ calls it.
PlaySize == 3

InitPlay ==
    /\ size = PlaySize
    /\ board = EmptyBoard(size)
    /\ current_player = "X"
    /\ game_over = FALSE
    /\ winner = None
    /\ winning_cells = <<>>
    /\ \E level \in Levels :
           call = [op |-> "test_ai_level", level |-> level, raised |-> None,
                   outcome |-> "running", moves |-> 0]
    /\ last_move = NoMove
    /\ held = NoBoard

\* One pass of the while loop: get_move, the assignment board[r][c] = player,
\* the win check with board_size as requirement, the draw check, the switch
\* of player.  An exception of get_move leaves test_ai_level.
PlayTurn ==
    /\ call.outcome = "running"
    /\ \E exit \in get_move(board, size, current_player, call.level) :
        LET placed == Place(exit.board, exit.ret, current_player)
            won == _check_win(placed, size, current_player, exit.ret[1],
                              exit.ret[2], size)
            full == EmptyCells(placed, size) = {}
            outcome == IF exit.raised # None THEN "raised"
                       ELSE IF won THEN "win"
                       ELSE IF full THEN "draw"
                       ELSE "running"
        IN  /\ board' = IF exit.raised # None THEN exit.board ELSE placed
            /\ current_player' = IF outcome = "running"
                                 THEN Other(current_player) ELSE current_player
            /\ game_over' = (outcome \in {"win", "draw"})
            /\ winner' = IF outcome = "win" THEN current_player ELSE None
            /\ call' = [op |-> "play", level |-> call.level,
                        player |-> current_player, raised |-> exit.raised,
                        ret |-> exit.ret, before |-> board,
                        outcome |-> outcome,
                        moves |-> IF exit.raised # None THEN call.moves
                                  ELSE call.moves + 1]
            /\ UNCHANGED <<size, winning_cells, last_move, held>>

NextPlay == PlayTurn

SpecPlay == InitPlay /\ [][NextPlay]_vars

(***************************************************************************)
(* The legacy 3 x 3 game logic (game_logic.py) and the host that drives it *)
(* in main.py: the host places X on the cell that was clicked, O is the    *)
(* answer of get_ai_move at the difficulty of the GameLogic object.  The   *)
(* difficulty is carried in call.                                         *)
(***************************************************************************)
Difficulties == 1 .. 10

check_winner(b, player) ==
    \/ \E row \in 0 .. 2 : \A col \in 0 .. 2 : b[<<row, col>>] = player
    \/ \E col \in 0 .. 2 : \A row \in 0 .. 2 : b[<<row, col>>] = player
    \/ \A i \in 0 .. 2 : b[<<i, i>>] = player
    \/ \A i \in 0 .. 2 : b[<<i, 2 - i>>] = player

is_draw(b) == \A r \in 0 .. 2, c \in 0 .. 2 : b[<<r, c>>] # None

Min(a, b) == IF a <= b THEN a ELSE b

\* minimax(board, is_maximizing, depth, alpha, beta); depth is passed on
\* and never read.  MinimaxLoop is the pair of loops "for r ... for c ..."
\* from the cell of row-major position k on: the break on beta <= alpha
\* leaves the loop over c only, and the scan goes on in the next row.
RECURSIVE minimax(_, _, _, _), MinimaxLoop(_, _, _, _, _, _)
minimax(b, is_maximizing, alpha, beta) ==
    IF check_winner(b, "O") THEN 1
    ELSE IF check_winner(b, "X") THEN -1
    ELSE IF is_draw(b) THEN 0
    ELSE MinimaxLoop(b, is_maximizing, 0,
                     IF is_maximizing THEN -Infinity ELSE Infinity, alpha, beta)

MinimaxLoop(b, is_maximizing, k, best_score, alpha, beta) ==
    IF k >= 9 THEN best_score
    ELSE LET r == k \div 3
             c == k % 3
         IN  IF b[<<r, c>>] # None
             THEN MinimaxLoop(b, is_maximizing, k + 1, best_score, alpha, beta)
             ELSE IF is_maximizing
             THEN LET score == minimax(Place(b, <<r, c>>, "O"), FALSE, alpha, beta)
                      best == Max(score, best_score)
                      a == Max(alpha, best)
                  IN  MinimaxLoop(b, TRUE, IF beta <= a THEN 3 * (r + 1) ELSE k + 1,
                                  best, a, beta)
             ELSE LET score == minimax(Place(b, <<r, c>>, "X"), TRUE, alpha, beta)
                      best == Min(score, best_score)
                      bt == Min(beta, best)
                  IN  MinimaxLoop(b, FALSE, IF bt <= alpha THEN 3 * (r + 1) ELSE k + 1,
                                  best, alpha, bt)

\* GameLogic._get_random_move: any empty cell, (0, 0) on a full board.
GameLogic_get_random_move(b) ==
    IF EmptyCells(b, 3) # {} THEN EmptyCells(b, 3) ELSE {<<0, 0>>}

\* The first empty cell, in row-major order, on which mark completes a line;
\* NoMove when there is none (_get_winning_move for O, _get_blocking_move
\* for X).
FirstCompleting(b, mark) ==
    LET S == {cell \in EmptyCells(b, 3) : check_winner(Place(b, cell, mark), mark)}
    IN  IF S = {} THEN NoMove ELSE FirstCell(3, S)

GameLogic_get_winning_move(b) == FirstCompleting(b, "O")

_get_blocking_move(b) == FirstCompleting(b, "X")

_get_minimax_move_first_empty(b) ==
    IF EmptyCells(b, 3) = {} THEN <<0, 0>> ELSE FirstCell(3, EmptyCells(b, 3))

\* The scan of _get_minimax_move from the cell of row-major position k on.
RECURSIVE MinimaxMoveLoop(_, _, _, _)
MinimaxMoveLoop(b, k, best_score, best_move) ==
    IF k >= 9 THEN best_move
    ELSE LET cell == <<k \div 3, k % 3>>
         IN  IF b[cell] # None THEN MinimaxMoveLoop(b, k + 1, best_score, best_move)
             ELSE LET score == minimax(Place(b, cell, "O"), FALSE, -Infinity, Infinity)
                  IN  IF score > best_score
                      THEN MinimaxMoveLoop(b, k + 1, score, cell)
                      ELSE MinimaxMoveLoop(b, k + 1, best_score, best_move)

_get_minimax_move(b) ==
    LET best_move == MinimaxMoveLoop(b, 0, -Infinity, NoMove)
    IN  IF best_move = NoMove THEN <<0, 0>> ELSE best_move

\* get_ai_move: the set of the moves it can return, over the outcomes of
\* random.random() and random.choice.
get_ai_move(b, difficulty) ==
    IF difficulty <= 2 THEN GameLogic_get_random_move(b)
    ELSE IF difficulty <= 4
    THEN GameLogic_get_random_move(b)
            \cup (IF _get_blocking_move(b) # NoMove THEN {_get_blocking_move(b)}
                  ELSE GameLogic_get_random_move(b))
    ELSE IF difficulty <= 7
    THEN IF GameLogic_get_winning_move(b) # NoMove THEN {GameLogic_get_winning_move(b)}
         ELSE IF _get_blocking_move(b) # NoMove THEN {_get_blocking_move(b)}
         ELSE {_get_minimax_move(b)} \cup GameLogic_get_random_move(b)
    ELSE {_get_minimax_move(b)}

InitLegacy ==
    /\ size = 3
    /\ board = EmptyBoard(3)
    /\ current_player = "X"
    /\ game_over = FALSE
    /\ winner = None
    /\ winning_cells = <<>>
    /\ \E difficulty \in Difficulties :
           call = [op |-> "GameLogic", difficulty |-> difficulty,
                   ret |-> NoMove, before |-> board]
    /\ last_move = NoMove
    /\ held = NoBoard

\* cell_clicked(row, col) of the host for the player to move: nothing on a
\* cell out of range or taken; else the mark is placed, a line of the mover
\* or a full board ends the game, and otherwise the turn passes.
cell_clicked(row, col, op, ret) ==
    IF row \notin 0 .. 2 \/ col \notin 0 .. 2 \/ board[<<row, col>>] # None
    THEN /\ call' = [call EXCEPT !.op = op, !.ret = ret, !.before = board]
         /\ UNCHANGED <<gameVars, last_move, held>>
    ELSE LET b == Place(board, <<row, col>>, current_player)
         IN  /\ board' = b
             /\ call' = [call EXCEPT !.op = op, !.ret = ret, !.before = board]
             /\ IF check_winner(b, current_player)
                THEN /\ game_over' = TRUE
                     /\ winner' = current_player
                     /\ UNCHANGED current_player
                ELSE IF is_draw(b)
                THEN /\ game_over' = TRUE
                     /\ UNCHANGED <<winner, current_player>>
                ELSE /\ current_player' = Other(current_player)
                     /\ UNCHANGED <<game_over, winner>>
             /\ UNCHANGED <<size, winning_cells, last_move, held>>

\* The person clicks a cell: X moves.
CellClicked(row, col) ==
    /\ ~game_over
    /\ current_player = "X"
    /\ board[<<row, col>>] = None
    /\ cell_clicked(row, col, "cell_clicked", <<row, col>>)

\* ai_move of the host: O moves to the cell get_ai_move returns.
AiMove ==
    /\ ~game_over
    /\ current_player = "O"
    /\ \E move \in get_ai_move(board, call.difficulty) :
           cell_clicked(move[1], move[2], "ai_move", move)

NextLegacy ==
    \/ \E cell \in Cells(3) : CellClicked(cell[1], cell[2])
    \/ AiMove

SpecLegacy == InitLegacy /\ [][NextLegacy]_vars

(***************************************************************************)
(* The search of levels 4-10 taken apart: one call of _negamax, one pass   *)
(* of the root loop of _get_expert_move, and the drivers run with a clock  *)
(* that never passes the deadline.  The drivers are called as get_move     *)
(* calls them, on a board without a completing cell for either mark.       *)
(***************************************************************************)
\* Depths of the passes of the root loop: 1 .. MaxPassDepth, the largest
\* being depth_limits[10].
MaxPassDepth == 7

\* Depths of the single calls of _negamax: 0 .. MaxNodeDepth.
MaxNodeDepth == 2

\* The depth loop of _get_expert_move from the pass at depth on, the clock
\* never past the deadline: how the driver is left ("raise", "win" for the
\* return at score == 1, "done" for the return after the last pass) and
\* the depth of the pass it is left in.
RECURSIVE ExpertInTime(_, _, _, _, _, _, _, _, _)
ExpertInTime(b, N, player, required, limit, moves, depth, best_move, best_score) ==
    IF depth > limit
    THEN [kind |-> "done", best_move |-> best_move, depth |-> limit, board |-> b]
    ELSE LET After(pass) ==
                 CASE pass.kind = "raise" ->
                        [kind |-> "raise", best_move |-> NoMove,
                         depth |-> depth, board |-> pass.board]
                   [] pass.kind = "win" ->
                        [kind |-> "win", best_move |-> pass.best_move,
                         depth |-> depth, board |-> b]
                   [] pass.kind = "done" ->
                        ExpertInTime(b, N, player, required, limit, moves,
                                     depth + 1, pass.best_move,
                                     pass.best_score)
         IN  After(ExpertPass(b, N, player, required, depth, moves, 1,
                              best_move, best_score))

\* The loop "for r, c in moves" of _get_advanced_move from moves[i] on, the
\* clock never past the deadline: the move it ends with and whether it was
\* left by the break at score == 1.
RECURSIVE AdvancedInTime(_, _, _, _, _, _, _, _)
AdvancedInTime(b, N, player, required, moves, i, best_move, best_score) ==
    IF i > Len(moves) THEN [best_move |-> best_move, broke |-> FALSE]
    ELSE LET score == _simple_evaluate(Place(b, moves[i], player), N, player,
                                       required)
         IN  IF score > best_score
             THEN (IF score = 1 THEN [best_move |-> moves[i], broke |-> TRUE]
                   ELSE AdvancedInTime(b, N, player, required, moves, i + 1,
                                       moves[i], score))
             ELSE AdvancedInTime(b, N, player, required, moves, i + 1,
                                 best_move, best_score)

\* The checks of get_move for a completing cell of either mark found none.
NoCompletingCell(b, N) ==
    /\ _get_winning_move(b, N, "X", win_requirements(N)) = NoMove
    /\ _get_winning_move(b, N, "O", win_requirements(N)) = NoMove

\* The search is run on the boards with at most MaxEmpty empty cells.
MaxEmpty == 6

Searched(b, N) == Cardinality(EmptyCells(b, N)) <= MaxEmpty

InitSearch ==
    /\ size = 3
    /\ board \in AIBoards(3)
    /\ current_player = "X"
    /\ game_over = FALSE
    /\ winner = None
    /\ winning_cells = <<>>
    /\ call = [op |-> "init"]
    /\ last_move = NoMove
    /\ held = NoBoard

\* _negamax(board, depth, -inf, inf, player, required) for the player to
\* move on the board.
Negamax(depth) ==
    /\ call.op = "init"
    /\ Searched(board, size)
    /\ \E player \in {ToMove(board, size)} :
       \E node \in {_negamax(board, size, depth, -Infinity, Infinity, player,
                              win_requirements(size))} :
           /\ board' = IF node.ok THEN board ELSE node.board
           /\ call' = [op |-> "_negamax", depth |-> depth, player |-> player,
                       raised |-> IF node.ok THEN None ELSE TypeError,
                       ret |-> IF node.ok THEN node.v ELSE 0,
                       before |-> board]
    /\ UNCHANGED <<size, current_player, game_over, winner, winning_cells,
                   last_move, held>>

\* One pass "for move in ordered_moves" of _get_expert_move at one depth,
\* begun as the first pass is, with best_score = -inf.
RootPass(depth) ==
    /\ call.op = "init"
    /\ Searched(board, size)
    /\ NoCompletingCell(board, size)
    /\ EmptyCells(board, size) # {}
    /\ \E player \in {ToMove(board, size)},
          moves \in {_get_ordered_moves(board, size,
                                        win_requirements(size)).moves} :
       \E pass \in {ExpertPass(board, size, player, win_requirements(size),
                                depth, moves, 1, moves[1], -Infinity)} :
           /\ board' = IF pass.kind = "raise" THEN pass.board ELSE board
           /\ call' = [op |-> "root_pass", depth |-> depth, player |-> player,
                       raised |-> IF pass.kind = "raise" THEN TypeError ELSE None,
                       ret |-> IF pass.kind = "raise" THEN NoMove
                               ELSE pass.best_move,
                       stop |-> pass.kind,
                       before |-> board]
    /\ UNCHANGED <<size, current_player, game_over, winner, winning_cells,
                   last_move, held>>

\* _get_expert_move at one of the levels 7-10 with the clock never past the
\* deadline.
ExpertMove(level) ==
    /\ call.op = "init"
    /\ Searched(board, size)
    /\ NoCompletingCell(board, size)
    /\ \E player \in {ToMove(board, size)},
          moves \in {_get_ordered_moves(board, size,
                                        win_requirements(size)).moves} :
       \E run \in {ExpertInTime(board, size, player, win_requirements(size),
                                 depth_limits(level), moves, 1,
                                 IF Len(moves) > 0 THEN moves[1] ELSE <<0, 0>>,
                                 -Infinity)} :
           /\ board' = run.board
           /\ call' = [op |-> "_get_expert_move", level |-> level,
                       player |-> player,
                       raised |-> IF run.kind = "raise" THEN TypeError ELSE None,
                       ret |-> run.best_move, stop |-> run.kind,
                       depth |-> run.depth, before |-> board]
    /\ UNCHANGED <<size, current_player, game_over, winner, winning_cells,
                   last_move, held>>

\* _get_advanced_move (levels 4-6) with the clock never past the deadline.
AdvancedMove ==
    /\ call.op = "init"
    /\ NoCompletingCell(board, size)
    /\ \E player \in {ToMove(board, size)},
          moves \in {_get_ordered_moves(board, size,
                                        win_requirements(size)).moves} :
       \E best_move \in {IF Len(moves) > 0 THEN moves[1] ELSE <<0, 0>>} :
       \E run \in {IF Cardinality(EmptyCells(board, size)) > size * size - 3
                    THEN [best_move |-> best_move, broke |-> FALSE,
                          early |-> TRUE]
                    ELSE [early |-> FALSE] @@
                         AdvancedInTime(board, size, player,
                                        win_requirements(size), moves, 1,
                                        best_move, -Infinity)} :
           call' = [op |-> "_get_advanced_move", player |-> player,
                    raised |-> None,
                    ret |-> run.best_move,
                    stop |-> IF run.early THEN "early"
                             ELSE IF run.broke THEN "win" ELSE "done",
                    before |-> board]
    /\ UNCHANGED <<gameVars, last_move, held>>

NextSearch ==
    \/ \E depth \in 0 .. MaxNodeDepth : Negamax(depth)
    \/ \E depth \in 1 .. MaxPassDepth : RootPass(depth)

SpecSearch == InitSearch /\ [][NextSearch]_vars

NextDriver ==
    \/ \E level \in 7 .. 10 : ExpertMove(level)
    \/ AdvancedMove

SpecDriver == InitSearch /\ [][NextDriver]_vars

(***************************************************************************)
(* The line tests of the search engine called on their own, on the boards  *)
(* of every size: _check_win at every cell and at (-1, -1), where _negamax *)
(* calls it, _check_potential at every cell.                               *)
(***************************************************************************)
InitLines ==
    /\ size \in Sizes
    /\ board \in AIBoards(size)
    /\ current_player = "X"
    /\ game_over = FALSE
    /\ winner = None
    /\ winning_cells = <<>>
    /\ call = [op |-> "init"]
    /\ last_move = NoMove
    /\ held = NoBoard

\* _check_win(board, player, row, col, required)
CheckWin(player, row, col) ==
    /\ call.op = "init"
    /\ call' = [op |-> "_check_win", player |-> player, row |-> row,
                col |-> col, raised |-> None,
                ret |-> _check_win(board, size, player, row, col,
                                   win_requirements(size)),
                before |-> board]
    /\ UNCHANGED <<gameVars, last_move, held>>

\* _check_potential(board, player, row, col, required)
CheckPotential(player, row, col) ==
    /\ call.op = "init"
    /\ call' = [op |-> "_check_potential", player |-> player, row |-> row,
                col |-> col, raised |-> None,
                ret |-> _check_potential(board, size, player, row, col,
                                         win_requirements(size)),
                before |-> board]
    /\ UNCHANGED <<gameVars, last_move, held>>

NextLines ==
    \/ \E player \in {"X", "O"}, cell \in Cells(size) \cup {<<-1, -1>>} :
          CheckWin(player, cell[1], cell[2])
    \/ \E player \in {"X", "O"}, cell \in Cells(size) :
          CheckPotential(player, cell[1], cell[2])

SpecLines == InitLines /\ [][NextLines]_vars

(***************************************************************************)
(* The move ordering and the two evaluators called on their own, on the    *)
(* boards of every size.                                                   *)
(***************************************************************************)
\* _get_ordered_moves(board, required)
OrderedMoves ==
    /\ call.op = "init"
    /\ LET ordered == _get_ordered_moves(board, size, win_requirements(size))
       IN  call' = [op |-> "_get_ordered_moves", raised |-> None,
                    kind |-> ordered.kind, ret |-> ordered.moves,
                    before |-> board]
    /\ UNCHANGED <<gameVars, last_move, held>>

\* _simple_evaluate(board, player, required)
SimpleEvaluate(player) ==
    /\ call.op = "init"
    /\ call' = [op |-> "_simple_evaluate", player |-> player, raised |-> None,
                ret |-> _simple_evaluate(board, size, player,
                                         win_requirements(size)),
                before |-> board]
    /\ UNCHANGED <<gameVars, last_move, held>>

\* _advanced_evaluate(board, player, required)
AdvancedEvaluate(player) ==
    /\ call.op = "init"
    /\ call' = [op |-> "_advanced_evaluate", player |-> player,
                raised |-> None,
                ret |-> _advanced_evaluate(board, size, player,
                                           win_requirements(size)),
                before |-> board]
    /\ UNCHANGED <<gameVars, last_move, held>>

NextEval ==
    \/ OrderedMoves
    \/ \E player \in {"X", "O"} : SimpleEvaluate(player)
    \/ \E player \in {"X", "O"} : AdvancedEvaluate(player)

SpecEval == InitLines /\ [][NextEval]_vars

(***************************************************************************)
(* The two drivers step by step, with the clock: call holds the locals of  *)
(* the driver that is running and late, whether time.time() - start_time   *)
(* has passed max_time.  The clock is read where the code reads it.        *)
(***************************************************************************)
\* The search is stepped on the boards with at most ClockEmpty empty cells.
ClockEmpty == 4

InitClock ==
    /\ size = 3
    /\ board \in {b \in AIBoards(3) :
                    /\ Cardinality(EmptyCells(b, 3)) <= ClockEmpty
                    /\ NoCompletingCell(b, 3)}
    /\ current_player = "X"
    /\ game_over = FALSE
    /\ winner = None
    /\ winning_cells = <<>>
    /\ call = [op |-> "init"]
    /\ last_move = NoMove
    /\ held = NoBoard

\* max_time goes by while a driver runs.
Deadline ==
    /\ call.op # "init"
    /\ call.pc \in {"depth", "move"}
    /\ ~call.late
    /\ call' = [call EXCEPT !.late = TRUE]
    /\ UNCHANGED <<gameVars, last_move, held>>

\* The locals of a driver when it reaches its loop, or when
\* _get_advanced_move returns before it on a board that is mostly empty or
\* full: they are set from the board alone, whatever a call before this
\* one (prior, the call record it ended with) left.  op is the driver.
\* Entry_keeping_best_score is the same with best_score left as the call
\* before had it.
Entry_keeping_best_score(op, level, b, prior) ==
    LET moves == _get_ordered_moves(b, 3, win_requirements(3)).moves
        best_move == IF Len(moves) > 0 THEN moves[1] ELSE <<0, 0>>
        early == /\ op = "_get_advanced_move"
                 /\ \/ Cardinality(EmptyCells(b, 3)) > 3 * 3 - 3
                    \/ Len(moves) = 0
    IN  [op |-> op,
         pc |-> IF early THEN "returned"
                ELSE IF op = "_get_expert_move" THEN "depth" ELSE "move",
         level |-> level, player |-> ToMove(b, 3), moves |-> moves,
         depth |-> 1, i |-> 1, best_move |-> best_move,
         best_score |-> IF prior.op = "init" THEN -Infinity
                        ELSE prior.best_score,
         late |-> FALSE, raised |-> None,
         ret |-> IF early THEN best_move ELSE NoMove, before |-> b]

Entry(op, level, b, prior) ==
    LET moves == _get_ordered_moves(b, 3, win_requirements(3)).moves
        best_move == IF Len(moves) > 0 THEN moves[1] ELSE <<0, 0>>
        early == /\ op = "_get_advanced_move"
                 /\ \/ Cardinality(EmptyCells(b, 3)) > 3 * 3 - 3
                    \/ Len(moves) = 0
    IN  [op |-> op,
         pc |-> IF early THEN "returned"
                ELSE IF op = "_get_expert_move" THEN "depth" ELSE "move",
         level |-> level, player |-> ToMove(b, 3), moves |-> moves,
         depth |-> 1, i |-> 1, best_move |-> best_move,
         best_score |-> -Infinity, late |-> FALSE, raised |-> None,
         ret |-> IF early THEN best_move ELSE NoMove, before |-> b]

\* _get_expert_move up to its depth loop.
ExpertEnter(level) ==
    /\ call.op = "init"
    /\ call' = Entry("_get_expert_move", level, board, call)
    /\ UNCHANGED <<gameVars, last_move, held>>

\* The head of "for depth in range(1, limit + 1)" and the check of the
\* clock under it.
ExpertDepth ==
    /\ call.op = "_get_expert_move"
    /\ call.pc = "depth"
    /\ call' = IF call.depth > depth_limits(call.level) \/ call.late
               THEN [call EXCEPT !.pc = "returned", !.ret = call.best_move]
               ELSE IF Len(call.moves) = 0
               THEN [call EXCEPT !.depth = call.depth + 1]
               ELSE [call EXCEPT !.pc = "move", !.i = 1]
    /\ UNCHANGED <<gameVars, last_move, held>>

\* One turn of "for move in ordered_moves": the move is placed, searched
\* and taken back.
ExpertRoot ==
    /\ call.op = "_get_expert_move"
    /\ call.pc = "move"
    /\ \E move \in {call.moves[call.i]} :
       \E child \in {_negamax(Place(board, move, call.player), size,
                              call.depth - 1, -Infinity, Infinity,
                              Other(call.player), win_requirements(size))} :
       \E next \in {IF call.i < Len(call.moves)
                    THEN [call EXCEPT !.i = call.i + 1]
                    ELSE [call EXCEPT !.pc = "depth",
                                      !.depth = call.depth + 1]} :
          IF ~child.ok
          THEN /\ board' = child.board
               /\ call' = [call EXCEPT !.pc = "raised", !.raised = TypeError]
          ELSE /\ board' = board
               /\ call' = IF -child.v > call.best_score
                          THEN (IF -child.v = One
                                THEN [call EXCEPT !.pc = "returned",
                                                  !.best_score = One,
                                                  !.best_move = move,
                                                  !.ret = move]
                                ELSE [next EXCEPT !.best_score = -child.v,
                                                  !.best_move = move])
                          ELSE next
    /\ UNCHANGED <<size, current_player, game_over, winner, winning_cells,
                   last_move, held>>

\* _get_advanced_move up to its loop, or to its return on a board that is
\* mostly empty.
AdvancedEnter ==
    /\ call.op = "init"
    /\ call' = Entry("_get_advanced_move", 4, board, call)
    /\ UNCHANGED <<gameVars, last_move, held>>

\* One turn of "for r, c in moves": the check of the clock, then the move
\* placed, scored and taken back.
AdvancedRoot ==
    /\ call.op = "_get_advanced_move"
    /\ call.pc = "move"
    /\ \E move \in {call.moves[call.i]} :
       \E score \in {_simple_evaluate(Place(board, move, call.player), size,
                                      call.player, win_requirements(size))} :
       \E better \in {IF score > call.best_score
                      THEN [call EXCEPT !.best_score = score,
                                        !.best_move = move]
                      ELSE call} :
          call' = IF call.late
                  THEN [call EXCEPT !.pc = "returned", !.ret = call.best_move]
                  ELSE IF (score > call.best_score /\ score = 1)
                          \/ call.i = Len(call.moves)
                  THEN [better EXCEPT !.pc = "returned",
                                      !.ret = better.best_move]
                  ELSE [better EXCEPT !.i = call.i + 1]
    /\ UNCHANGED <<gameVars, last_move, held>>

NextClock ==
    \/ \E level \in 7 .. 10 : ExpertEnter(level)
    \/ ExpertDepth
    \/ ExpertRoot
    \/ AdvancedEnter
    \/ AdvancedRoot
    \/ Deadline

SpecClock == InitClock /\ [][NextClock]_vars

\* The driver that has ended is called again, on a board equal to the one
\* of its first call and at the same level; first keeps how the first call
\* ended.
CallAgain ==
    /\ call.op # "init"
    /\ call.pc \in {"returned", "raised"}
    /\ "first" \notin DOMAIN call
    /\ board' = call.before
    /\ call' = [first |-> [raised |-> call.raised, ret |-> call.ret,
                           late |-> call.late]]
                  @@ Entry(call.op, call.level, call.before, call)
    /\ UNCHANGED <<size, current_player, game_over, winner, winning_cells,
                   last_move, held>>

NextTwice ==
    \/ NextClock
    \/ CallAgain

SpecTwice == InitClock /\ [][NextTwice]_vars

(***************************************************************************)
(* The win detection of the game classes next to the line test of the      *)
(* search engine, on the boards of every size: both are asked about a      *)
(* cell that holds a mark, and a cell get_move returns as completing is    *)
(* played with make_move on a game that holds the board.                   *)
(***************************************************************************)
\* check_win(row, col) of the game class of the size and
\* _check_win(board, M, row, col, required) for the mark M of the cell.
CheckWinBoth(row, col) ==
    /\ call.op = "init"
    /\ board[<<row, col>>] # None
    /\ call' = [op |-> "check_win", row |-> row, col |-> col,
                player |-> board[<<row, col>>], raised |-> None,
                game |-> check_win(size, board, row, col, <<>>).win,
                ai |-> _check_win(board, size, board[<<row, col>>], row, col,
                                  win_requirements(size)),
                before |-> board]
    /\ UNCHANGED <<gameVars, last_move, held>>

\* get_move for the player to move on the board of a game in progress, and
\* make_move with the cell it returned, when that cell was found by
\* _get_winning_move for the mover.
ApplyWinningMove(level) ==
    /\ call.op = "init"
    /\ \A mark \in {"X", "O"} :
          \A cell \in Cells(size) :
             board[cell] = mark
                => ~check_win(size, board, cell[1], cell[2], <<>>).win
    /\ _get_winning_move(board, size, ToMove(board, size),
                         win_requirements(size)) # NoMove
    /\ \E player \in {ToMove(board, size)} :
       \E exit \in get_move(board, size, player, level) :
          /\ exit.raised = None
          /\ exit.ret = _get_winning_move(board, size, player,
                                          win_requirements(size))
          /\ \E r \in {make_move(size, exit.board, player, FALSE, None, <<>>,
                                 exit.ret[1], exit.ret[2])} :
                /\ board' = r.board
                /\ current_player' = r.current_player
                /\ game_over' = r.game_over
                /\ winner' = r.winner
                /\ winning_cells' = r.winning_cells
                /\ call' = [op |-> "apply", level |-> level, player |-> player,
                            row |-> exit.ret[1], col |-> exit.ret[2],
                            raised |-> r.raised, ret |-> r.ret,
                            before |-> board]
    /\ UNCHANGED <<size, last_move, held>>

NextAgree ==
    \/ \E cell \in Cells(size) : CheckWinBoth(cell[1], cell[2])
    \/ \E level \in Levels : ApplyWinningMove(level)

SpecAgree == InitLines /\ [][NextAgree]_vars

(***************************************************************************)
(* Vocabulary of the properties.                                           *)
(***************************************************************************)
\* The K cells from <<r, c>> on in direction d.
Segment(r, c, d, K) == {<<r + i * d[1], c + i * d[2]>> : i \in 0 .. K - 1}

\* The lines of K cells of the N x N board: rows, columns, both diagonals.
Lines(N, K) ==
    {line \in {Segment(cell[1], cell[2], Directions[d], K) :
                   cell \in Cells(N), d \in 1 .. 4} : line \subseteq Cells(N)}

\* mark holds every cell of some line of K cells.
HasLine(b, N, mark, K) ==
    \E line \in Lines(N, K) : \A cell \in line : b[cell] = mark

\* mark holds every cell of some line of K cells through cell.
LineThrough(b, N, mark, K, cell) ==
    \E line \in Lines(N, K) : cell \in line /\ \A other \in line : b[other] = mark

BoardFull(b, N) == \A cell \in Cells(N) : b[cell] # None

\* The step is a call of make_move.
MoveCalled == call'.op = "make_move"

\* The call of make_move returned True, returned False.
MoveAccepted == MoveCalled /\ call'.raised = None /\ call'.ret

MoveRefused == MoveCalled /\ call'.raised = None /\ ~call'.ret

\* The cell an accepted call of make_move wrote to.
Written == <<PyIdx(call'.row, size), PyIdx(call'.col, size)>>

(***************************************************************************)
(* Properties of the game state machine.                                   *)
(***************************************************************************)
\* C4: once the game is over, every call of make_move, whatever its
\* coordinates, returns False and leaves board, current_player, game_over,
\* winner and winning_cells as they were; only reset leaves the state.
C4_TerminalStatesAbsorbing ==
    [][(game_over /\ MoveCalled) => (MoveRefused /\ UNCHANGED gameVars)]_vars

\* C4: a call of make_move with a row past the end was refused, without an
\* exception, on a game that is over.
C4_RefusedAfterGameOver ==
    /\ game_over
    /\ call.op = "make_move"
    /\ call.row = size
    /\ call.raised = None
    /\ ~call.ret

\* C5: make_move on an in-range cell that holds a mark returns False and
\* changes no field of the game.
C5_OccupiedCellRefused ==
    [][(/\ MoveCalled
        /\ OnBoard(size, call'.row, call'.col)
        /\ board[<<call'.row, call'.col>>] # None)
       => (MoveRefused /\ UNCHANGED gameVars)]_vars

\* C5: make_move was refused on an in-range cell while the game was in
\* progress, that is, on an occupied cell.
C5_RefusedOnOccupiedCell ==
    /\ ~game_over
    /\ call.op = "make_move"
    /\ OnBoard(size, call.row, call.col)
    /\ call.raised = None
    /\ ~call.ret
    /\ board[<<call.row, call.col>>] # None

\* C6: make_move with a row or a column outside [0, N) returns False, raises
\* nothing and leaves the board as it was.
C6_OutOfRangeRefused ==
    [][(MoveCalled /\ ~OnBoard(size, call'.row, call'.col))
       => (MoveRefused /\ board' = board)]_vars

\* C7: an accepted make_move after which the written cell lies on a line of
\* K marks of the mover ends the game with the mover as winner and a line
\* of K of the mover's marks as winning cells (also when the board is full).
C7_LineCompletedIsWon ==
    [][(/\ MoveAccepted
        /\ LineThrough(board', size, current_player, win_requirements(size),
                       Written))
       => (/\ game_over'
           /\ winner' = current_player
           /\ \E line \in Lines(size, win_requirements(size)) :
                  /\ line = {winning_cells'[i] : i \in DOMAIN winning_cells'}
                  /\ \A cell \in line : board'[cell] = current_player)]_vars

\* C8: the game is over without a winner exactly when the board is full and
\* neither mark holds a line of K.
C8_DrawnIffFullWithoutLine ==
    (game_over /\ winner = None)
        <=> (/\ BoardFull(board, size)
             /\ ~HasLine(board, size, "X", win_requirements(size))
             /\ ~HasLine(board, size, "O", win_requirements(size)))

\* C9: a call of make_move changes current_player exactly when it returns
\* True and leaves the game in progress, and then to the other mark; a
\* refused call, a call that raises, a winning and a drawing call leave it.
C9_TurnPassesOnlyOnOpenMove ==
    [][MoveCalled =>
        /\ (current_player' # current_player) <=> (MoveAccepted /\ ~game_over')
        /\ current_player' \in {current_player, Other(current_player)}]_vars

\* C9: the turn has passed to O and back to X by accepted moves.
C9_TurnPassedBack ==
    /\ call.op = "make_move"
    /\ call.raised = None
    /\ call.ret
    /\ ~game_over
    /\ current_player = "X"

\* C10: with K = N on 3x3, 4x4, 5x5 and K = 5 on 6x6, an accepted make_move
\* on an in-range cell that then lies on a line of K marks of the mover
\* ends the game with the mover as winner.
C10_RequirementOfSearchEngine ==
    [][(/\ MoveAccepted
        /\ OnBoard(size, call'.row, call'.col)
        /\ LineThrough(board', size, current_player, win_requirements(size),
                       <<call'.row, call'.col>>))
       => (game_over' /\ winner' = current_player)]_vars

\* C11: reset() from any state leaves the board empty at the same size, X to
\* move, the game not over, no winner and no winning cells; the make_move
\* that follows a reset is accepted on every in-range cell and writes X.
C11_ResetRestoresInitialState ==
    [][/\ (call'.op = "reset") =>
            /\ size' = size
            /\ board' = EmptyBoard(size)
            /\ current_player' = "X"
            /\ ~game_over'
            /\ winner' = None
            /\ winning_cells' = <<>>
       /\ (call.op = "reset" /\ MoveCalled
              /\ OnBoard(size, call'.row, call'.col)) =>
            /\ MoveAccepted
            /\ board' = [board EXCEPT ![<<call'.row, call'.col>>] = "X"]]_vars

\* C11: reset() was called on a game that O had won.
C11_ResetAfterWin ==
    /\ call.op = "reset"
    /\ call.over
    /\ call.winner = "O"
    /\ board = EmptyBoard(size)
    /\ current_player = "X"

(***************************************************************************)
(* Properties of GameManager.                                              *)
(***************************************************************************)
\* The step is a call of GameManager.make_move, and the cell it names.
ManagerMoveCalled == call'.op = "manager_make_move"

ManagerTarget == <<call'.row, call'.col>>

\* C12: GameManager.make_move on a game in progress and an in-range empty
\* cell returns True, places the mover's mark on the game's board and sets
\* last_move to the cell; on an in-range occupied cell or a finished game it
\* returns False; it raises only when a coordinate is out of range.
C12_ManagerMoveApplied ==
    [][ManagerMoveCalled =>
        /\ (/\ OnBoard(size, call'.row, call'.col)
            /\ ~game_over
            /\ board[ManagerTarget] = None)
           => (/\ call'.raised = None
               /\ call'.ret
               /\ board' = [board EXCEPT ![ManagerTarget] = current_player]
               /\ last_move' = ManagerTarget)
        /\ (/\ OnBoard(size, call'.row, call'.col)
            /\ (game_over \/ board[ManagerTarget] # None))
           => (call'.raised = None /\ ~call'.ret)
        /\ (call'.raised # None) => ~OnBoard(size, call'.row, call'.col)]_vars

\* C13: GameManager.reset raises nothing from any state and leaves the game
\* in its initial state with last_move cleared.
C13_ManagerResetCompletes ==
    [][(call'.op = "manager_reset") =>
        /\ call'.raised = None
        /\ board' = EmptyBoard(size)
        /\ current_player' = "X"
        /\ ~game_over'
        /\ winner' = None
        /\ winning_cells' = <<>>
        /\ last_move' = NoMove]_vars

\* C19: get_board leaves the game as it is and hands out the board's
\* contents; a write of the host to a cell or a row of the list it was
\* handed changes no field of the game, so every later make_move and win
\* detection works on the board the game's own moves built.
C19_BoardCopyIndependent ==
    [][/\ (call'.op = "get_board") =>
            /\ UNCHANGED gameVars
            /\ \A cell \in Cells(size) : HeldAt(held', board', cell) = board[cell]
       /\ (call'.op \in {"write_cell", "write_row"}) => UNCHANGED gameVars]_vars

\* C19: the host overwrote cell (0, 0) of the list it was handed twice, the
\* game's board kept X there, and a later make_move won row 0 for X.
C19_WinAfterHostWrites ==
    /\ held.taken
    /\ held.writes = MaxWrites
    /\ held.cells[<<0, 0>>] # "X"
    /\ board[<<0, 0>>] = "X"
    /\ call.op = "make_move"
    /\ game_over
    /\ winner = "X"

(***************************************************************************)
(* Properties of the entry checks.                                         *)
(***************************************************************************)
\* The rows of the call do not form an N x N board.
NotSquare(shape) ==
    Len(shape) = 0 \/ \E r \in 1 .. Len(shape) : shape[r] # Len(shape)

\* C16: AIPlayer(level) with a level outside 1..10 raises ValueError;
\* get_move on an empty board, on rows that are not N rows of N cells, or
\* for a mark other than X and O raises ValueError with the board untouched.
C16_InvalidArgumentsRejected ==
    /\ (call.op = "AIPlayer" /\ call.level \notin 1 .. 10)
          => call.raised = ValueError
    /\ (call.op = "get_move"
          /\ (NotSquare(call.shape) \/ call.player \notin {"X", "O"}))
          => (call.raised = ValueError /\ board = call.before)

(***************************************************************************)
(* Properties of self-play.                                                *)
(***************************************************************************)
\* C14: at level 10 on 3x3 no self-play game ends with a completed line:
\* with the engine on both sides the side that faces the line is the
\* engine, so every finished game is a draw.
C14_NoLossAtLevel10 ==
    (call.op = "play" /\ call.level = 10) => call.outcome # "win"

\* C15: at every level each pass of the self-play loop calls get_move on a
\* board with an empty cell, get_move returns, on an empty cell; the marks
\* on the board are the moves made, at most N * N; and the loop goes on
\* exactly until the last move wins or fills the board.
C15_SelfPlayTerminates ==
    [][(call'.op = "play") =>
        /\ EmptyCells(board, size) # {}
        /\ call'.raised = None
        /\ call'.ret \in EmptyCells(board, size)
        /\ call'.moves = Cardinality(Cells(size) \ EmptyCells(board', size))
        /\ call'.moves <= size * size
        /\ (call'.outcome = "running")
              <=> (/\ EmptyCells(board', size) # {}
                   /\ ~LineThrough(board', size, current_player, size,
                                   call'.ret))]_vars

(***************************************************************************)
(* Properties of the search engine.                                        *)
(***************************************************************************)
\* The empty cells of b at which mark would hold a line of K.
Completing(b, N, mark, K) ==
    {cell \in Cells(N) :
        /\ b[cell] = None
        /\ LineThrough(Place(b, cell, mark), N, mark, K, cell)}

\* The completing cells of the mover and of the opponent on the board
\* get_move was called with.
MoverCompleting ==
    Completing(call.before, size, call.player, win_requirements(size))

OpponentCompleting ==
    Completing(call.before, size, Other(call.player), win_requirements(size))

\* C1: at every level 1..10, on a board where some empty cell completes a
\* line of K for the mover, get_move returns such a cell, also when the
\* opponent has a completing cell too.
C1_ImmediateWinTaken ==
    (call.op = "get_move" /\ MoverCompleting # {})
        => (call.raised = None /\ call.ret \in MoverCompleting)

\* C1: a search level returned the mover's completing cell on a board
\* larger than 3x3 where the opponent had a completing cell as well.
C1_WinPreferredToBlock ==
    /\ call.op = "get_move"
    /\ call.level = 10
    /\ size > 3
    /\ MoverCompleting # {}
    /\ OpponentCompleting # {}
    /\ call.raised = None
    /\ call.ret \in MoverCompleting
    /\ call.ret \notin OpponentCompleting

\* C2: at every level 1..10, on a board where no empty cell completes a line
\* of K for the mover and some empty cell does for the opponent, get_move
\* returns a cell that completes a line for the opponent.
C2_ImmediateBlockTaken ==
    (call.op = "get_move" /\ MoverCompleting = {} /\ OpponentCompleting # {})
        => (call.raised = None /\ call.ret \in OpponentCompleting)

\* C2: the random level returned the opponent's completing cell on a board
\* that had other empty cells and none completing for the mover.
C2_RandomLevelBlocks ==
    /\ call.op = "get_move"
    /\ call.level = 1
    /\ MoverCompleting = {}
    /\ OpponentCompleting # {}
    /\ Cardinality(EmptyCells(call.before, size)) > 2
    /\ call.raised = None
    /\ call.ret \in OpponentCompleting

\* C3: at every level, for either mark, on a board with an empty cell,
\* get_move raises nothing and returns an in-range cell that was empty.
C3_MoveAlwaysReturned ==
    (call.op = "get_move" /\ EmptyCells(call.before, size) # {})
        => (/\ call.raised = None
            /\ call.ret \in Cells(size)
            /\ call.before[call.ret] = None)

\* C17: on a board without an empty cell get_move raises, at every level,
\* and so never reports a cell.
C17_FullBoardRaises ==
    (call.op = "get_move" /\ EmptyCells(call.before, size) = {})
        => call.raised # None

\* C18: when get_move is left, by return or by exception, the board of the
\* caller holds what it held at the call.
C18_BoardRestoredOnExit ==
    call.op = "get_move" => board = call.before

(***************************************************************************)
(* Properties of the legacy game logic.                                    *)
(***************************************************************************)
\* C20: at difficulty 8, 9 and 10, with O answering every move of X by
\* get_ai_move from the empty board on, no board holds three X in a line,
\* and get_ai_move returns an empty cell whenever the board has one.
C20_LegacyNeverLosesAsO ==
    call.difficulty \in 8 .. 10 =>
        /\ ~HasLine(board, 3, "X", 3)
        /\ (call.op = "ai_move" /\ EmptyCells(call.before, 3) # {})
              => call.before[call.ret] = None

\* A game at difficulty 10 that ended on a full board, X having moved five
\* times against the answers of get_ai_move.
C20_DrawnAgainstMinimax ==
    /\ call.difficulty = 10
    /\ game_over
    /\ winner = None
    /\ BoardFull(board, 3)
    /\ CountOf(board, 3, "O") = 4

(***************************************************************************)
(* Properties of the search taken apart.                                   *)
(***************************************************************************)
\* C21: a call of _negamax on a board on which the side that is not to
\* move holds a complete line of K cells, in a row, a column or a diagonal,
\* returns -1 at once.
C21_WonNodeScoresMinusOne ==
    (call.op = "_negamax"
        /\ HasLine(call.before, size, Other(call.player), win_requirements(size)))
        => (call.raised = None /\ call.ret = -One)

\* Depth-limited minimax in negamax form without pruning: every empty cell
\* is tried, the leaves are those of _negamax (the test for a won node,
\* _advanced_evaluate at depth 0), a node without a move is worth -inf.
RECURSIVE PlainNegamax(_, _, _, _, _)
PlainNegamax(b, N, depth, player, required) ==
    IF _check_win(b, N, Other(player), -1, -1, required) THEN -One
    ELSE IF depth = 0 THEN _advanced_evaluate(b, N, player, required)
    ELSE LET values == {-PlainNegamax(Place(b, cell, player), N, depth - 1,
                                      Other(player), required) :
                           cell \in EmptyCells(b, N)}
         IN  IF values = {} THEN -Infinity
             ELSE CHOOSE v \in values : \A w \in values : v >= w

\* The value plain minimax gives the root move to cell at this depth.
PlainRootValue(b, N, depth, player, cell) ==
    -PlainNegamax(Place(b, cell, player), N, depth - 1, Other(player),
                  win_requirements(N))

\* The value the search with pruning gives the root move to cell.
PrunedRootValue(b, N, depth, player, cell) ==
    -_negamax(Place(b, cell, player), N, depth - 1, -Infinity, Infinity,
              Other(player), win_requirements(N)).v

\* C22: a pass of the root loop at a depth 1..7 on a 3 x 3 board ends with
\* a chosen move, and the value the search with pruning gives that move is
\* the largest value plain minimax gives a legal root move.
C22_PruningKeepsRootValue ==
    call.op = "root_pass" =>
        /\ call.raised = None
        /\ \A cell \in EmptyCells(call.before, size) :
              PrunedRootValue(call.before, size, call.depth, call.player, call.ret)
                >= PlainRootValue(call.before, size, call.depth, call.player, cell)
        /\ PrunedRootValue(call.before, size, call.depth, call.player, call.ret)
              = PlainRootValue(call.before, size, call.depth, call.player, call.ret)

\* C23: when the clock never passes the deadline and every pass is run to
\* its end, the move _get_expert_move returns has the largest score of the
\* pass at the depth limit of the level.
C23_LastPassDecides ==
    (call.op = "_get_expert_move" /\ call.raised = None /\ call.stop = "done")
        => \A cell \in EmptyCells(call.before, size) :
              PrunedRootValue(call.before, size, depth_limits(call.level),
                              call.player, call.ret)
                >= PrunedRootValue(call.before, size, depth_limits(call.level),
                                   call.player, cell)

\* On board b, the opponent of mover to move, mover completes a line of K
\* cells within the next plies half-moves whatever the opponent replies: the
\* line is there, or no reply completes a line of the opponent and after
\* every reply some move of mover is again such a position.
RECURSIVE ProvenWin(_, _, _, _)
ProvenWin(b, N, mover, plies) ==
    \/ HasLine(b, N, mover, win_requirements(N))
    \/ /\ plies >= 2
       /\ EmptyCells(b, N) # {}
       /\ \A reply \in EmptyCells(b, N) :
             LET replied == Place(b, reply, Other(mover))
             IN  /\ ~HasLine(replied, N, Other(mover), win_requirements(N))
                 /\ \E cell \in EmptyCells(replied, N) :
                       ProvenWin(Place(replied, cell, mover), N, mover, plies - 2)

\* C24: when _get_expert_move returns from inside a pass because a root
\* move scored 1, the mover wins after that move, within the depth of the
\* pass, against every sequence of replies.
C24_EarlyStopIsProvenWin ==
    (call.op = "_get_expert_move" /\ call.stop = "win")
        => ProvenWin(Place(call.before, call.ret, call.player), size,
                     call.player, call.depth - 1)

\* The score of the one-ply evaluation of a move: _simple_evaluate on the
\* board with the mark of the mover on the cell.
OnePlyScore(b, N, player, cell) ==
    _simple_evaluate(Place(b, cell, player), N, player, win_requirements(N))

\* Position of a cell in the ordered candidate moves of board b.
CandidateIndex(b, N, cell) ==
    LET moves == _get_ordered_moves(b, N, win_requirements(N)).moves
    IN  CHOOSE i \in 1 .. Len(moves) : moves[i] = cell

\* C25: with the clock never past the deadline and no completing cell for
\* either mark, the move _get_advanced_move returns has the highest one-ply
\* score of all empty cells and is the first such in the candidate order;
\* the scan is left early only at a move that completes a line of the
\* mover.
C25_HighestOnePlyScore ==
    (call.op = "_get_advanced_move" /\ EmptyCells(call.before, size) # {})
        => /\ \A cell \in EmptyCells(call.before, size) :
                \/ OnePlyScore(call.before, size, call.player, call.ret)
                      > OnePlyScore(call.before, size, call.player, cell)
                \/ /\ OnePlyScore(call.before, size, call.player, call.ret)
                        = OnePlyScore(call.before, size, call.player, cell)
                   /\ CandidateIndex(call.before, size, call.ret)
                        <= CandidateIndex(call.before, size, cell)
           /\ call.stop = "win"
                => HasLine(Place(call.before, call.ret, call.player), size,
                           call.player, win_requirements(size))

(***************************************************************************)
(* Properties of the line tests.                                           *)
(***************************************************************************)
\* C26: for a cell (row, col) that holds M, _check_win(board, M, row, col,
\* K) is true iff M holds every cell of some line of K cells through
\* (row, col), in a row, a column or a diagonal, that is iff the run of M
\* through the cell is K long or longer in one of the four orientations;
\* the call does not raise.
C26_CheckWinIffRunThroughCell ==
    (call.op = "_check_win" /\ OnBoard(size, call.row, call.col)
        /\ call.before[<<call.row, call.col>>] = call.player)
        => /\ call.raised = None
           /\ call.ret <=> LineThrough(call.before, size, call.player,
                                       win_requirements(size),
                                       <<call.row, call.col>>)

\* _check_win was true at the centre of the 3 x 3 board, where a line has
\* cells on both sides.
C26_LineThroughCentre ==
    /\ call.op = "_check_win"
    /\ size = 3
    /\ call.row = 1 /\ call.col = 1
    /\ call.before[<<1, 1>>] = call.player
    /\ call.ret

\* Some line of K cells through cell holds M or nothing on its other cells.
OpenLineThrough(b, N, mark, K, cell) ==
    \E line \in Lines(N, K) :
        /\ cell \in line
        /\ \A other \in line \ {cell} : b[other] = mark \/ b[other] = None

\* C27: _check_potential(board, M, row, col, K) is true iff in one of the
\* four orientations the stretch of cells through (row, col) that hold M or
\* nothing, (row, col) itself counted, is K long or longer; it is true
\* whenever _check_win is true for the same arguments.
C27_CheckPotentialIffOpenStretch ==
    call.op = "_check_potential"
        => /\ call.ret <=> OpenLineThrough(call.before, size, call.player,
                                           win_requirements(size),
                                           <<call.row, call.col>>)
           /\ _check_win(call.before, size, call.player, call.row, call.col,
                         win_requirements(size)) => call.ret

\* _check_potential was true at a cell of M where _check_win is false: the
\* stretch runs over empty cells.
C27_PotentialOverEmptyCells ==
    /\ call.op = "_check_potential"
    /\ call.before[<<call.row, call.col>>] = call.player
    /\ call.ret
    /\ ~_check_win(call.before, size, call.player, call.row, call.col,
                   win_requirements(size))

(***************************************************************************)
(* Properties of the move ordering and of the evaluators.                  *)
(***************************************************************************)
\* Some empty cell of b completes a line of K cells for X or for O.
SomeCompletingCell(b, N) ==
    \E cell \in EmptyCells(b, N), mark \in {"X", "O"} :
        LineThrough(Place(b, cell, mark), N, mark, win_requirements(N), cell)

\* center_score + potential_score of an empty cell, times 2 * size:
\* (size - distance to the centre) / size, plus 0.5 for each mark that has
\* an open line through the cell.
OrderingScore(b, N, cell) ==
    2 * (N - Max(Abs(cell[1] - N \div 2), Abs(cell[2] - N \div 2)))
      + N * Cardinality({mark \in {"X", "O"} :
                OpenLineThrough(b, N, mark, win_requirements(N), cell)})

\* C28: when no empty cell completes a line for either mark,
\* _get_ordered_moves returns (row, col) pairs, every empty cell once, in
\* the order of descending score with equal scores in row-major order; on
\* a full board that is the empty sequence.
C28_OrderedMovesSorted ==
    (call.op = "_get_ordered_moves" /\ ~SomeCompletingCell(call.before, size))
        => /\ call.raised = None
           /\ call.kind = "tuples"
           /\ Len(call.ret) = Cardinality(EmptyCells(call.before, size))
           /\ {call.ret[i] : i \in 1 .. Len(call.ret)} = EmptyCells(call.before, size)
           /\ \A i, j \in 1 .. Len(call.ret) :
                i < j =>
                  \/ OrderingScore(call.before, size, call.ret[i])
                        > OrderingScore(call.before, size, call.ret[j])
                  \/ /\ OrderingScore(call.before, size, call.ret[i])
                          = OrderingScore(call.before, size, call.ret[j])
                     /\ RowMajor(size, call.ret[i]) < RowMajor(size, call.ret[j])

\* _get_ordered_moves returned a list in which a cell comes before a cell
\* of an earlier row-major position, and one in which two cells of equal
\* score follow each other.
C28_SortMovedCells ==
    /\ call.op = "_get_ordered_moves"
    /\ ~SomeCompletingCell(call.before, size)
    /\ \E i, j \in 1 .. Len(call.ret) :
          i < j /\ RowMajor(size, call.ret[i]) > RowMajor(size, call.ret[j])
    /\ \E i, j \in 1 .. Len(call.ret) :
          /\ i < j
          /\ OrderingScore(call.before, size, call.ret[i])
                = OrderingScore(call.before, size, call.ret[j])

\* C29: when some empty cell completes a line for either mark,
\* _get_ordered_moves returns one candidate, a completing cell, as a
\* (row, col) pair like the candidates of the other case.
C29_CompletingMoveIsPair ==
    (call.op = "_get_ordered_moves" /\ SomeCompletingCell(call.before, size))
        => /\ call.raised = None
           /\ Len(call.ret) = 1
           /\ \E mark \in {"X", "O"} :
                LineThrough(Place(call.before, call.ret[1], mark), size, mark,
                            win_requirements(size), call.ret[1])
           /\ call.kind = "tuples"

\* C30: _simple_evaluate and _advanced_evaluate return +1 on a board on
\* which the mark alone has a complete line, -1 on one on which the
\* opponent alone has one, and neither +1 nor -1 on a board without a
\* complete line.
C30_TerminalScoreIffLine ==
    (call.op = "_simple_evaluate" \/ call.op = "_advanced_evaluate")
        => LET one == IF call.op = "_simple_evaluate" THEN 1 ELSE One
               mine == HasLine(call.before, size, call.player,
                               win_requirements(size))
               theirs == HasLine(call.before, size, Other(call.player),
                                 win_requirements(size))
           IN  /\ (mine /\ ~theirs) => call.ret = one
               /\ (theirs /\ ~mine) => call.ret = -one
               /\ (~mine /\ ~theirs) => (call.ret # one /\ call.ret # -one)

(***************************************************************************)
(* Properties of the leaf heuristic.                                       *)
(***************************************************************************)
\* P(mark): the number of empty cells of b at which mark, once placed,
\* would have an open line.
PotentialCells(b, N, mark) ==
    Cardinality({cell \in EmptyCells(b, N) :
        OpenLineThrough(b, N, mark, win_requirements(N), cell)})

\* A score in tenths, rounded to the nearest integer.
Tenths(S) == IF S < 0 THEN -FloatK(-S) ELSE FloatK(S)

\* The board is in play and no empty cell completes a line: the case in
\* which _advanced_evaluate returns its sum.
HeuristicMode(b, N) ==
    /\ ~BoardFull(b, N)
    /\ ~HasLine(b, N, "X", win_requirements(N))
    /\ ~HasLine(b, N, "O", win_requirements(N))
    /\ ~SomeCompletingCell(b, N)

\* C31: on a board in play on which _advanced_evaluate reaches its sum,
\* ten times the score is P(mark) - P(opponent), P(m) the number of empty
\* cells at which placing m would create a potential line.
C31_HeuristicIsPotentialDifference ==
    (call.op = "_advanced_evaluate" /\ HeuristicMode(call.before, size))
        => Tenths(call.ret) = PotentialCells(call.before, size, call.player)
                                - PotentialCells(call.before, size,
                                                 Other(call.player))

(***************************************************************************)
(* Properties of the drivers under the clock.                              *)
(***************************************************************************)
\* The step places and searches a root move of _get_expert_move.
RootMoveSearched ==
    /\ call.op = "_get_expert_move"
    /\ call.pc = "move"
    /\ call' # call
    /\ call'.late = call.late

\* C32: _get_expert_move reads the clock between the passes of the
\* iterative deepening and between the root moves of a pass: at levels
\* 7-10 no root move is placed and searched once max_time has gone by.
C32_NoRootMoveAfterDeadline == [][RootMoveSearched => ~call.late]_vars

(***************************************************************************)
(* Invariants of the game state machine.                                   *)
(***************************************************************************)
\* C33: in every state reached by make_move and reset the board holds as
\* many X as O, or one X more, and while the game is in progress X is to
\* move exactly when the two counts are equal.
C33_MarksAlternate ==
    /\ CountOf(board, size, "X") - CountOf(board, size, "O") \in {0, 1}
    /\ ~game_over =>
          (current_player = "X"
              <=> CountOf(board, size, "X") = CountOf(board, size, "O"))

\* A game in progress after an accepted move of X, its second: O is to
\* move on a board with one X more.
C33_SecondMoveOfX ==
    /\ call.op = "make_move"
    /\ call.raised = None
    /\ call.ret
    /\ ~game_over
    /\ current_player = "O"
    /\ CountOf(board, size, "X") = 2
    /\ CountOf(board, size, "O") = 1

\* C34: in every reachable state of the 3x3, 4x4 and 5x5 games the winner
\* is the mark that holds a complete line of K, a game with a winner is
\* over, the two marks never both hold a complete line, and winning_cells
\* is non-empty exactly when there is a winner.
C34_WinnerIffLine ==
    size \in {3, 4, 5}
        => /\ \A mark \in {"X", "O"} :
                 winner = mark
                    <=> HasLine(board, size, mark, win_requirements(size))
           /\ winner # None => game_over
           /\ ~(/\ HasLine(board, size, "X", win_requirements(size))
                /\ HasLine(board, size, "O", win_requirements(size)))
           /\ winning_cells # <<>> <=> winner # None

\* C35: whenever the game is won, winning_cells lists distinct cells of the
\* board that all hold the winner's mark, that are the cells of one
\* stretch of a row, a column or a diagonal, at least K of them, and the
\* cell of the winning move is among them.
C35_WinningCellsAreTheLine ==
    winner # None
        => LET won == {winning_cells[i] : i \in DOMAIN winning_cells}
           IN  /\ Cardinality(won) = Len(winning_cells)
               /\ won \subseteq Cells(size)
               /\ \A cell \in won : board[cell] = winner
               /\ Len(winning_cells) >= win_requirements(size)
               /\ \E cell \in Cells(size), d \in 1 .. 4 :
                     won = Segment(cell[1], cell[2], Directions[d],
                                   Len(winning_cells))
               /\ (call.op = "make_move" /\ call.raised = None /\ call.ret)
                     => <<PyIdx(call.row, size), PyIdx(call.col, size)>> \in won

\* C36: an accepted make_move(row, col) changes one cell of the board,
\* board[row][col], from empty to the mark of the player who was to move,
\* and no step but reset clears or overwrites an occupied cell.
C36_OneEmptyCellWritten ==
    [][/\ MoveAccepted
          => /\ board[Written] = None
             /\ board' = [board EXCEPT ![Written] = current_player]
       /\ call'.op # "reset"
          => \A cell \in Cells(size) :
                board[cell] # None => board'[cell] = board[cell]]_vars

\* The fourth mark of a game went, through a negative row, to the last row
\* of the board.
C36_FourthMarkPlaced ==
    /\ call.op = "make_move"
    /\ call.raised = None
    /\ call.ret
    /\ call.row = -1
    /\ board[<<size - 1, call.col>>] = "O"
    /\ CountOf(board, size, "X") = 2
    /\ CountOf(board, size, "O") = 2

(***************************************************************************)
(* Properties that relate the game classes and the search engine.          *)
(***************************************************************************)
\* C37: on the boards of size 3, 4 and 5, for every cell that holds a mark
\* M, check_win(row, col) of the game class equals
\* _check_win(board, M, row, col, N); and make_move with a cell that
\* get_move returned as completing a line for the mover ends the game as
\* won by the mover.
C37_WinDetectionAgrees ==
    size \in {3, 4, 5}
        => /\ call.op = "check_win" => call.game = call.ai
           /\ call.op = "apply"
                 => /\ call.raised = None
                    /\ call.ret
                    /\ game_over
                    /\ winner = call.player

\* Both tests found the line of a column of the 4x4 board from one of its
\* middle cells.
C37_ColumnFoundFromMiddle ==
    /\ call.op = "check_win"
    /\ size = 4
    /\ call.row = 2
    /\ call.game
    /\ call.ai

(***************************************************************************)
(* Further properties of the evaluators and of the drivers.                *)
(***************************************************************************)
\* C38: the leaf evaluation is zero-sum: on every board
\* _advanced_evaluate(board, X, K) = -_advanced_evaluate(board, O, K),
\* also where both marks have a completing cell.
C38_LeafEvaluationZeroSum ==
    call.op = "_advanced_evaluate"
        => call.ret = -_advanced_evaluate(call.before, size,
                                          Other(call.player),
                                          win_requirements(size))

====
